---- MODULE Spec2Model ----
(***************************************************************************)
(* Model of the SDWIS translation API database adapter (db.js) and of the  *)
(* list routes that call it.                                               *)
(*                                                                         *)
(* Two specifications share the variables:                                 *)
(*   Spec   the backend mode lifecycle, the query entry points of the      *)
(*          four modes and the list-route handlers, as an asynchronous     *)
(*          state machine (one action per run-to-completion segment        *)
(*          between two awaits);                                           *)
(*   SpecT  the pure SQL dialect translators applied to bounded canonical  *)
(*          queries.                                                       *)
(* SQL text is a TLA+ string handled character by character, so the        *)
(* regular expressions of the source are modelled by what they match.      *)
(***************************************************************************)
EXTENDS Integers, Sequences, FiniteSets, TLC

VARIABLES
    env,        \* process.env: DEMO_MODE, MSSQL_SERVER, ORACLE_USER
    mode,       \* let mode
    pool,       \* let pool
    startup,    \* position of the startup promise chain (poolReady / probe)
    calls,      \* the in-flight callers of db.query and of the list routes
    openConns,  \* oracle: connections acquired from the pool and not closed
    tShape,     \* SpecT: shape of the canonical query under translation
    tText,      \* SpecT: canonical query text
    tParams,    \* SpecT: canonical bind list
    tOut,       \* SpecT: result of the last translation
    tFirst,     \* SpecT: first result of each translator, what the postgresql
                \* query handed to its pool, and whether a translator has been
                \* called again since
    rIn,        \* SpecL: the row sequence handed to lowercaseKeys
    rOut,       \* SpecL: what lowercaseKeys returned for it, and for its result
    reqQuery,   \* SpecP: req.query.pageNumber and req.query.pageSize
    page,       \* SpecP: the page parameters a list route computed from it
    req,        \* SpecR, SpecD: the request a route handler is given
    sqlCalls,   \* SpecR: the text and binds of the db.query calls of the handler
    demoFile,   \* SpecD: the records of the demo JSON file of the route
    demoData,   \* SpecD: let _demoData, null until the first demo request
    resp,       \* SpecD: the response of the handler
    dbResult    \* SpecG: how the db.query a get-by-ID handler awaited settled

vars ==
    <<env, mode, pool, startup, calls, openConns, tShape, tText, tParams, tOut, tFirst,
      rIn, rOut, reqQuery, page, req, sqlCalls, demoFile, demoData, resp, dbResult>>

lifeVars == <<env, mode, pool, startup, calls, openConns>>
transVars ==
    <<tShape, tText, tParams, tOut, tFirst, rIn, rOut, reqQuery, page, req, sqlCalls,
      demoFile, demoData, resp, dbResult>>
rowVars == <<rIn, rOut>>
pageVars == <<reqQuery, page>>
routeVars == <<req, sqlCalls, demoFile, demoData, resp, dbResult>>

(***************************************************************************)
(* Bounds                                                                  *)
(***************************************************************************)
MaxRows == 2
MaxFields == 2
MaxNumber == 9999   \* largest finite Number of the model, standing for Number.MAX_VALUE
MaxBinds == 4
\* the most records a demo JSON file holds
MaxRecords == 3
\* the most filter parameters one demo list request carries
MaxFilters == 3       \* longest canonical bind list translated
NCalls == 2         \* concurrent callers of query / list requests

(***************************************************************************)
(* JavaScript values that reach the translators                            *)
(***************************************************************************)
Num(n) == [t |-> "number", n |-> n, s |-> ""]
Str(s) == [t |-> "string", n |-> 0, s |-> s]
Undefined == [t |-> "undefined", n |-> 0, s |-> ""]
NaN == [t |-> "NaN", n |-> 0, s |-> ""]
PosInfinity == [t |-> "infinity", n |-> 1, s |-> ""]
NegInfinity == [t |-> "infinity", n |-> -1, s |-> ""]
Null == [t |-> "null", n |-> 0, s |-> ""]

\* a built-in function, and what String() makes of it
NativeFunction(name) ==
    [t |-> "function", n |-> 0, s |-> "function " \o name \o "() { [native code] }"]

\* Object.prototype itself, as the __proto__ accessor returns it
PrototypeObject == [t |-> "object", n |-> 0, s |-> "[object Object]"]

\* `${v}` : template-literal formatting of a value
Fmt(v) ==
    CASE v.t = "number" -> ToString(v.n)
      [] v.t = "string" -> v.s
      [] v.t = "undefined" -> "undefined"
      [] v.t = "infinity" -> IF v.n > 0 THEN "Infinity" ELSE "-Infinity"
      [] v.t \in {"function", "object"} -> v.s
      [] v.t = "null" -> "null"
      [] OTHER -> "NaN"

\* a + b : numeric sum of two numbers, concatenation when a string is involved
JsAdd(a, b) ==
    IF a.t = "number" /\ b.t = "number" THEN Num(a.n + b.n)
    ELSE IF a.t = "string" \/ b.t = "string" THEN Str(Fmt(a) \o Fmt(b))
    ELSE IF a.t = "infinity" /\ b.t \in {"number", "infinity"}
    THEN (IF b.t = "infinity" /\ b.n # a.n THEN NaN ELSE a)
    ELSE IF b.t = "infinity" /\ a.t = "number" THEN b
    ELSE NaN

\* params[i] for a 1-based i; out of range reads undefined
ParamAt(params, i) == IF i \in 1..Len(params) THEN params[i] ELSE Undefined

(***************************************************************************)
(* Characters and character classes of the regular expressions             *)
(***************************************************************************)
Ch(s, i) == SubSeq(s, i, i)

DigitChars == {"0", "1", "2", "3", "4", "5", "6", "7", "8", "9"}
SpaceChars == {" ", "\n", "\t"}
LowerAlpha == "abcdefghijklmnopqrstuvwxyz"
UpperAlpha == "ABCDEFGHIJKLMNOPQRSTUVWXYZ"
LowerChars == {Ch(LowerAlpha, i) : i \in 1..26}
UpperChars == {Ch(UpperAlpha, i) : i \in 1..26}

IsDigit(c) == c \in DigitChars
IsSpace(c) == c \in SpaceChars

\* the upper case letter of each lower case letter, and the converse
UpperOf == [c \in LowerChars |-> Ch(UpperAlpha, CHOOSE i \in 1..26 : Ch(LowerAlpha, i) = c)]
LowerOf == [c \in UpperChars |-> Ch(LowerAlpha, CHOOSE i \in 1..26 : Ch(UpperAlpha, i) = c)]

ToUpperCh(c) == IF c \in LowerChars THEN UpperOf[c] ELSE c

ToLowerCh(c) == IF c \in UpperChars THEN LowerOf[c] ELSE c

\* the literal w (given in upper case) matches s at p under the /i flag
MatchCI(s, p, w) ==
    /\ p >= 1
    /\ p + Len(w) - 1 <= Len(s)
    /\ \A k \in 1..Len(w) : ToUpperCh(Ch(s, p + k - 1)) = Ch(w, k)

\* F applied to the value of v, which is computed once
Apply(F(_), v) == CHOOSE r \in {F(x) : x \in {v}} : TRUE

\* the least q in p..(n - 1) with P(q), or n when there is none
First(p, n, P(_)) ==
    Apply(LAMBDA hits : IF hits = {} THEN n
                        ELSE CHOOSE q \in hits : \A r \in hits : q <= r,
          {q \in p..(n - 1) : P(q)})

\* \d* , \s* , \S* from p: index of the first character not in the class
SpanDigits(s, p) == First(p, Len(s) + 1, LAMBDA q : ~IsDigit(Ch(s, q)))
SpanSpace(s, p) == First(p, Len(s) + 1, LAMBDA q : ~IsSpace(Ch(s, q)))
SpanNonSpace(s, p) == First(p, Len(s) + 1, LAMBDA q : IsSpace(Ch(s, q)))

\* leading \s* of a match that starts at p: where the white space before p begins
SpaceStart(s, p) ==
    CHOOSE q \in 1..p : /\ \A r \in q..(p - 1) : IsSpace(Ch(s, r))
                        /\ (q = 1 \/ ~IsSpace(Ch(s, q - 1)))

DigitVal(c) == CHOOSE n \in 0..9 : ToString(n) = c

\* parseInt of a non-empty digit string
RECURSIVE ParseInt(_)
ParseInt(d) ==
    IF Len(d) = 0 THEN 0
    ELSE 10 * ParseInt(SubSeq(d, 1, Len(d) - 1)) + DigitVal(Ch(d, Len(d)))

\* s contains w (case-sensitive)
Contains(s, w) ==
    \E p \in 1..(Len(s) - Len(w) + 1) : SubSeq(s, p, p + Len(w) - 1) = w

\* s contains w under the /i flag (w in upper case)
ContainsCI(s, w) == \E p \in 1..(Len(s) - Len(w) + 1) : MatchCI(s, p, w)

(***************************************************************************)
(* translateToOracle / translateToMssql                                    *)
(***************************************************************************)

\* a replacement not anchored to the '$' prefix: /(\d+)/g
RECURSIVE ReplacePlaceholders_anyDigits(_, _, _)
ReplacePlaceholders_anyDigits(s, p, marker) ==
    Apply(LAMBDA q :
              IF q > Len(s) THEN SubSeq(s, p, Len(s))
              ELSE Apply(LAMBDA e : SubSeq(s, p, q - 1) \o marker
                                    \o SubSeq(s, q, e - 1)
                                    \o ReplacePlaceholders_anyDigits(s, e, marker),
                         SpanDigits(s, q)),
          First(p, Len(s) + 1, LAMBDA i : IsDigit(Ch(s, i))))

\* sql.replace(/\$(\d+)/g, marker + '$1')  with marker ':' or '@p'
RECURSIVE ReplacePlaceholders(_, _, _)
ReplacePlaceholders(s, p, marker) ==
    Apply(LAMBDA q :
              IF q > Len(s) THEN SubSeq(s, p, Len(s))
              ELSE Apply(LAMBDA e : SubSeq(s, p, q - 1) \o marker
                                    \o SubSeq(s, q + 1, e - 1)
                                    \o ReplacePlaceholders(s, e, marker),
                         SpanDigits(s, q + 1)),
          First(p, Len(s) + 1,
                LAMBDA i : Ch(s, i) = "$" /\ i < Len(s) /\ IsDigit(Ch(s, i + 1))))

\* /(\S+)\s+ILIKE\s+(\S+)/i tried at p. (\S+) is followed by \s+, so it can
\* only be the whole rest of the token that p is in.
IlikeAt(s, p) ==
    LET e == SpanNonSpace(s, p)
        k == SpanSpace(s, e)
        a == k + 5
        m == SpanSpace(s, a)
        r == SpanNonSpace(s, m)
    IN  [left |-> SubSeq(s, p, e - 1), right |-> SubSeq(s, m, r - 1), end |-> r]

IlikeOk(s, p) ==
    LET e == SpanNonSpace(s, p)
        k == SpanSpace(s, e)
        a == k + 5
        m == SpanSpace(s, a)
    IN  /\ e > p /\ k > e /\ MatchCI(s, k, "ILIKE") /\ m > a /\ m <= Len(s)

\* 'UPPER($1) LIKE UPPER($2)'
OracleIlike(left, right) == "UPPER(" \o left \o ") LIKE UPPER(" \o right \o ")"

\* '$1 LIKE $2'
MssqlIlike(left, right) == left \o " LIKE " \o right

\* a replacement without the g flag: only the first match is replaced
ReplaceIlike_firstOnly(s, p, dialect) ==
    Apply(LAMBDA q :
              IF q > Len(s) THEN SubSeq(s, p, Len(s))
              ELSE Apply(LAMBDA m :
                             SubSeq(s, p, q - 1)
                             \o (IF dialect = "oracle"
                                 THEN OracleIlike(m.left, m.right)
                                 ELSE MssqlIlike(m.left, m.right))
                             \o SubSeq(s, m.end, Len(s)),
                         IlikeAt(s, q)),
          First(p, Len(s) + 1,
                LAMBDA i : (i = p \/ IsSpace(Ch(s, i - 1))) /\ IlikeOk(s, i)))

\* sql.replace(/(\S+)\s+ILIKE\s+(\S+)/gi, ...): each leftmost match is
\* replaced and the scan restarts right after it. A match can only start
\* where the scan starts or a token starts: a start inside a token has the
\* same continuation as the start of that token.
RECURSIVE ReplaceIlike(_, _, _)
ReplaceIlike(s, p, dialect) ==
    Apply(LAMBDA q :
              IF q > Len(s) THEN SubSeq(s, p, Len(s))
              ELSE Apply(LAMBDA m :
                             SubSeq(s, p, q - 1)
                             \o (IF dialect = "oracle"
                                 THEN OracleIlike(m.left, m.right)
                                 ELSE MssqlIlike(m.left, m.right))
                             \o ReplaceIlike(s, m.end, dialect),
                         IlikeAt(s, q)),
          First(p, Len(s) + 1,
                LAMBDA i : (i = p \/ IsSpace(Ch(s, i - 1))) /\ IlikeOk(s, i)))

\* /LIMIT\s+<marker>(\d+)\s+OFFSET\s+<marker>(\d+)/i tried at p
\* (marker in upper case: ':' or '@P')
LimitAt(s, p, marker) ==
    LET b == SpanSpace(s, p + 5)
        c == b + Len(marker)
        d == SpanDigits(s, c)
        e == SpanSpace(s, d)
        g == SpanSpace(s, e + 6)
        h == g + Len(marker)
        i == SpanDigits(s, h)
    IN  [start |-> p, end |-> i,
         limitDigits |-> SubSeq(s, c, d - 1),
         offsetDigits |-> SubSeq(s, h, i - 1)]

LimitOk(s, p, marker) ==
    LET b == SpanSpace(s, p + 5)
        c == b + Len(marker)
        d == SpanDigits(s, c)
        e == SpanSpace(s, d)
        g == SpanSpace(s, e + 6)
        h == g + Len(marker)
        i == SpanDigits(s, h)
    IN  /\ MatchCI(s, p, "LIMIT") /\ b > p + 5 /\ MatchCI(s, b, marker)
        /\ d > c /\ e > d /\ MatchCI(s, e, "OFFSET") /\ g > e + 6
        /\ MatchCI(s, g, marker) /\ i > h

\* sql.match(...): the leftmost match, or null (found = FALSE)
FindLimit(s, marker) ==
    Apply(LAMBDA q :
              IF q > Len(s)
              THEN [found |-> FALSE, start |-> 0, end |-> 0, limitDigits |-> "",
                    offsetDigits |-> ""]
              ELSE Apply(LAMBDA m : [found |-> TRUE, start |-> q, end |-> m.end,
                                     limitDigits |-> m.limitDigits,
                                     offsetDigits |-> m.offsetDigits],
                         LimitAt(s, q, marker)),
          First(1, Len(s) + 1, LAMBDA i : LimitOk(s, i, marker)))

\* sql.replace(/\s*LIMIT\s+..\d+\s+OFFSET\s+..\d+/i, ''): the first clause
\* goes, with the white space in front of it
RemoveLimit(s, m) == SubSeq(s, 1, SpaceStart(s, m.start) - 1) \o SubSeq(s, m.end, Len(s))

\* a filter that forgets the offset index
RECURSIVE FilterParams_limitOnly(_, _, _, _)
FilterParams_limitOnly(params, i, limitPos, offsetPos) ==
    IF i > Len(params) THEN <<>>
    ELSE (IF i # limitPos THEN <<params[i]>> ELSE <<>>)
         \o FilterParams_limitOnly(params, i + 1, limitPos, offsetPos)

\* params.filter((_, i) => i !== limitIdx && i !== offsetIdx), indices 1-based here
RECURSIVE FilterParams(_, _, _, _)
FilterParams(params, i, limitPos, offsetPos) ==
    IF i > Len(params) THEN <<>>
    ELSE (IF i # limitPos /\ i # offsetPos THEN <<params[i]>> ELSE <<>>)
         \o FilterParams(params, i + 1, limitPos, offsetPos)

\* a wrapper whose outer bound forgets the page size
OracleWrap_offsetOnly(sql, limit, offset) ==
    "SELECT * FROM (\n      SELECT a.*, ROWNUM rn FROM (" \o sql
    \o ") a\n      WHERE ROWNUM <= " \o Fmt(offset)
    \o "\n    ) WHERE rn > " \o Fmt(offset)

\* the ROWNUM wrapper of translateToOracle
OracleWrap(sql, limit, offset) ==
    "SELECT * FROM (\n      SELECT a.*, ROWNUM rn FROM (" \o sql
    \o ") a\n      WHERE ROWNUM <= " \o Fmt(JsAdd(offset, limit))
    \o "\n    ) WHERE rn > " \o Fmt(offset)

\* a suffix that takes the first placeholder for the offset
MssqlSuffix_swapped(limit, offset) ==
    " OFFSET " \o Fmt(limit) \o " ROWS FETCH NEXT " \o Fmt(offset) \o " ROWS ONLY"

\* the OFFSET/FETCH suffix of translateToMssql
MssqlSuffix(limit, offset) ==
    " OFFSET " \o Fmt(offset) \o " ROWS FETCH NEXT " \o Fmt(limit) \o " ROWS ONLY"

\* /COUNT\(\*\)\s+as\s+total/i tried at p: where the match ends, 0 if none
CountEnd(s, p) ==
    LET b == SpanSpace(s, p + 8)
        d == SpanSpace(s, b + 2)
    IN  IF /\ MatchCI(s, p, "COUNT(*)") /\ b > p + 8 /\ MatchCI(s, b, "AS")
           /\ d > b + 2 /\ MatchCI(s, d, "TOTAL")
        THEN d + 5 ELSE 0

\* a translator without the count alias replacement
ReplaceCountAlias_none(s, p) == SubSeq(s, p, Len(s))

\* sql.replace(/COUNT\(\*\)\s+as\s+total/gi, 'COUNT(*) total')
RECURSIVE ReplaceCountAlias(_, _)
ReplaceCountAlias(s, p) ==
    Apply(LAMBDA q :
              IF q > Len(s) THEN SubSeq(s, p, Len(s))
              ELSE Apply(LAMBDA e : SubSeq(s, p, q - 1) \o "COUNT(*) total"
                                    \o ReplaceCountAlias(s, e),
                         CountEnd(s, q)),
          First(p, Len(s) + 1, LAMBDA i : CountEnd(s, i) > 0))

\* const binds = {}; params.forEach((val, i) => { binds[String(i + 1)] = val; })
OracleBinds(params) ==
    [k \in {ToString(i) : i \in 1..Len(params)} |-> params[ParseInt(k)]]

\* a pagination step that does not test limitMatch
OracleLimit_always(sql, m, params) ==
    LET limitPos == ParseInt(m.limitDigits)
        offsetPos == ParseInt(m.offsetDigits)
    IN  [sql |-> OracleWrap(IF m.found THEN RemoveLimit(sql, m) ELSE sql,
                            ParamAt(params, limitPos), ParamAt(params, offsetPos)),
         params |-> FilterParams(params, 1, limitPos, offsetPos)]

\* the `if (limitMatch && params)` block of translateToOracle, on the text
\* after the placeholder and ILIKE replacements
OracleLimit(sql, m, params) ==
    LET limitPos == ParseInt(m.limitDigits)
        offsetPos == ParseInt(m.offsetDigits)
    IN  IF m.found
        THEN [sql |-> OracleWrap(RemoveLimit(sql, m), ParamAt(params, limitPos),
                                 ParamAt(params, offsetPos)),
              params |-> FilterParams(params, 1, limitPos, offsetPos)]
        ELSE [sql |-> sql, params |-> params]

translateToOracle(text, params) ==
    Apply(LAMBDA s1 :
      Apply(LAMBDA s2 :
        Apply(LAMBDA m :
          Apply(LAMBDA r : [sql |-> ReplaceCountAlias(r.sql, 1),
                            binds |-> OracleBinds(r.params),
                            filteredParams |-> r.params],
                OracleLimit(s2, m, params)),
          FindLimit(s2, ":")),
        ReplaceIlike(s1, 1, "oracle")),
      ReplacePlaceholders(text, 1, ":"))

\* the `if (limitMatch && params)` block of translateToMssql
MssqlLimit(sql, m, params) ==
    LET limitPos == ParseInt(m.limitDigits)
        offsetPos == ParseInt(m.offsetDigits)
    IN  IF m.found
        THEN [sql |-> RemoveLimit(sql, m)
                      \o MssqlSuffix(ParamAt(params, limitPos),
                                     ParamAt(params, offsetPos)),
              filteredParams |-> FilterParams(params, 1, limitPos, offsetPos)]
        ELSE [sql |-> sql, filteredParams |-> params]

\* a SQL Server translator that rewrites the count alias as the Oracle one does
translateToMssql_countAlias(text, params) ==
    Apply(LAMBDA s1 :
      Apply(LAMBDA s2 :
        Apply(LAMBDA m :
          Apply(LAMBDA r : [sql |-> ReplaceCountAlias(r.sql, 1),
                            filteredParams |-> r.filteredParams],
                MssqlLimit(s2, m, params)),
          FindLimit(s2, "@P")),
        ReplaceIlike(s1, 1, "mssql")),
      ReplacePlaceholders(text, 1, "@p"))

translateToMssql(text, params) ==
    Apply(LAMBDA s1 :
      Apply(LAMBDA s2 :
        Apply(LAMBDA m : MssqlLimit(s2, m, params), FindLimit(s2, "@P")),
        ReplaceIlike(s1, 1, "mssql")),
      ReplacePlaceholders(text, 1, "@p"))

\* request.input(`p${i + 1}`, val) for each filtered parameter
MssqlInputs(filteredParams) ==
    [k \in {"p" \o ToString(i) : i \in 1..Len(filteredParams)} |->
        filteredParams[ParseInt(SubSeq(k, 2, Len(k)))]]


(***************************************************************************)
(* Canonical queries, built the way the list routes build them             *)
(***************************************************************************)
CondKinds == {"like", "ilike", "ge"}

\* conditions.push(`... $${paramIdx++}`)
CondText(kind, k) ==
    CASE kind = "like" -> "TRIM(ws.number0) LIKE $" \o ToString(k)
      [] kind = "ilike" -> "ws.name ILIKE $" \o ToString(k)
      [] OTHER -> "ws.d_population_count >= $" \o ToString(k)

\* params.push(...): a distinct value per canonical position
CondValue(kind, k) ==
    CASE kind = "like" -> Str("MS" \o ToString(k) \o "%")
      [] kind = "ilike" -> Str("%name" \o ToString(k) \o "%")
      [] OTHER -> Num(1000 + k)

\* (pageSize, pageNumber * pageSize) pairs used as pagination binds
Pages == {<<10, 0>>, <<5, 10>>}

\* the canonical positions that are not pagination binds, in increasing order
RECURSIVE OtherPositions(_, _, _, _)
OtherPositions(i, n, limitPos, offsetPos) ==
    IF i > n THEN <<>>
    ELSE (IF i \in {limitPos, offsetPos} THEN <<>> ELSE <<i>>)
         \o OtherPositions(i + 1, n, limitPos, offsetPos)

\* where the two pagination placeholders <<limit, offset>> sit among n
\* binds: last (as the routes put them), last and swapped, first, first and
\* last, in between
PagePositions(n) ==
    {pp \in {<<n - 1, n>>, <<n, n - 1>>, <<1, 2>>, <<1, n>>, <<2, 3>>} :
        pp[1] # pp[2] /\ pp[1] \in 1..n /\ pp[2] \in 1..n}

\* the row query: n binds of which two distinct ones are the pagination binds
PagedShapesOf(n) ==
    {[paged |-> TRUE, count |-> FALSE, n |-> n, limitPos |-> pp[1],
      offsetPos |-> pp[2], kinds |-> ks, limit |-> pg[1], offset |-> pg[2]] :
        pp \in PagePositions(n), ks \in [1..(n - 2) -> CondKinds], pg \in Pages}

\* the count query, or an unpaginated select, over n filter binds
UnpagedShapesOf(n) ==
    {[paged |-> FALSE, count |-> c, n |-> n, limitPos |-> 0, offsetPos |-> 0,
      kinds |-> ks, limit |-> 0, offset |-> 0] :
        c \in BOOLEAN, ks \in [1..n -> CondKinds]}

Shapes ==
    UNION {PagedShapesOf(n) : n \in 2..MaxBinds}
    \cup UNION {UnpagedShapesOf(n) : n \in 0..(MaxBinds - 2)}

NoShape ==
    [paged |-> FALSE, count |-> FALSE, n |-> 0, limitPos |-> 0, offsetPos |-> 0,
     kinds |-> <<>>, limit |-> 0, offset |-> 0]

RECURSIVE JoinConds(_, _, _)
JoinConds(kinds, positions, i) ==
    IF i > Len(kinds) THEN ""
    ELSE " AND " \o CondText(kinds[i], positions[i]) \o JoinConds(kinds, positions, i + 1)

WhereText(sh) ==
    "WHERE ws.tinwsys_st_code = 'MS'"
    \o JoinConds(sh.kinds, OtherPositions(1, sh.n, sh.limitPos, sh.offsetPos), 1)

BuildText(sh) ==
    IF sh.paged
    THEN "SELECT * FROM tinwsys ws " \o WhereText(sh)
         \o "\n         ORDER BY ws.name ASC\n         LIMIT $" \o ToString(sh.limitPos)
         \o " OFFSET $" \o ToString(sh.offsetPos)
    ELSE (IF sh.count THEN "SELECT COUNT(*) as total FROM tinwsys ws "
                      ELSE "SELECT * FROM tinwsys ws ")
         \o WhereText(sh)

BuildParams(sh) ==
    LET others == OtherPositions(1, sh.n, sh.limitPos, sh.offsetPos)
        rank(k) == CHOOSE i \in 1..Len(others) : others[i] = k
    IN  [k \in 1..sh.n |->
            IF sh.paged /\ k = sh.limitPos THEN Num(sh.limit)
            ELSE IF sh.paged /\ k = sh.offsetPos THEN Num(sh.offset)
            ELSE CondValue(sh.kinds[rank(k)], k)]


(***************************************************************************)
(* SpecT: the translators applied to the canonical queries                 *)
(***************************************************************************)
NoOut == [dialect |-> "none", sql |-> "", filteredParams |-> <<>>, binds |-> <<>>]

\* no translation has been made yet
NoFirst == [oracle |-> NoOut, mssql |-> NoOut, postgresql |-> NoOut, again |-> FALSE]

\* the record of first results after the translation out
Remember(first, out) ==
    IF first[out.dialect] = NoOut THEN [first EXCEPT ![out.dialect] = out]
    ELSE [first EXCEPT !.again = TRUE]

\* a translator that filters the array it was given in place
ParamsAfter_spliced(params, filtered) == filtered

\* the array passed to a translator, after the call:
\* params = params.filter(...) builds a new array and rebinds the local name
ParamsAfter(params, filtered) == params

\* query (oracle), line 197: translateToOracle(text, params ? [...params] : [])
TranslateOracle ==
    /\ \E r \in {translateToOracle(tText, tParams)} :
           /\ tOut' = [dialect |-> "oracle", sql |-> r.sql,
                       filteredParams |-> r.filteredParams, binds |-> r.binds]
           /\ tParams' = ParamsAfter(tParams, r.filteredParams)
    /\ tFirst' = Remember(tFirst, tOut')
    /\ UNCHANGED <<tShape, tText>>
    /\ UNCHANGED rowVars
    /\ UNCHANGED pageVars
    /\ UNCHANGED routeVars
    /\ UNCHANGED lifeVars

\* query (mssql), lines 145-152: translateToMssql, then request.input per bind
TranslateMssql ==
    /\ \E r \in {translateToMssql(tText, tParams)} :
           /\ tOut' = [dialect |-> "mssql", sql |-> r.sql,
                       filteredParams |-> r.filteredParams,
                       binds |-> MssqlInputs(r.filteredParams)]
           /\ tParams' = ParamsAfter(tParams, r.filteredParams)
    /\ tFirst' = Remember(tFirst, tOut')
    /\ UNCHANGED <<tShape, tText>>
    /\ UNCHANGED rowVars
    /\ UNCHANGED pageVars
    /\ UNCHANGED routeVars
    /\ UNCHANGED lifeVars

\* query (postgresql), lines 226-229: pool.query(text, params), no translation
QueryPostgresql ==
    /\ tFirst.postgresql = NoOut
    /\ tFirst' = [tFirst EXCEPT !.postgresql =
                      [dialect |-> "postgresql", sql |-> tText,
                       filteredParams |-> tParams, binds |-> tParams]]
    /\ UNCHANGED <<tShape, tText, tParams, tOut>>
    /\ UNCHANGED rowVars
    /\ UNCHANGED pageVars
    /\ UNCHANGED routeVars
    /\ UNCHANGED lifeVars


(***************************************************************************)
(* Row normalisation                                                       *)
(***************************************************************************)
\* a row object is its entries <<key, value>> in insertion order; a driver
\* may hand back null in place of a row
JsObject(entries) == [null |-> FALSE, entries |-> entries]
JsNull == [null |-> TRUE, entries |-> <<>>]

\* a normalisation that copies the keys as they are
ToLowerCase_asIs(k) == k

\* k.toLowerCase()
RECURSIVE ToLowerCase(_)
ToLowerCase(k) ==
    IF Len(k) = 0 THEN ""
    ELSE ToLowerCh(Ch(k, 1)) \o ToLowerCase(SubSeq(k, 2, Len(k)))

\* lower[key] = v : an existing key keeps its place and takes the new value
SetField(entries, key, v) ==
    IF \E i \in 1..Len(entries) : entries[i][1] = key
    THEN [i \in 1..Len(entries) |->
            IF entries[i][1] = key THEN <<key, v>> ELSE entries[i]]
    ELSE Append(entries, <<key, v>>)

\* for (const [k, v] of Object.entries(row)) lower[k.toLowerCase()] = v
RECURSIVE LowerEntries(_, _, _)
LowerEntries(entries, i, lower) ==
    IF i > Len(entries) THEN lower
    ELSE LowerEntries(entries, i + 1,
                      SetField(lower, ToLowerCase(entries[i][1]), entries[i][2]))

\* lowercaseKeys(rows); Object.entries(null) throws a TypeError
lowercaseKeys(rows) ==
    IF \E i \in 1..Len(rows) : rows[i].null
    THEN [threw |-> TRUE, rows |-> <<>>]
    ELSE [threw |-> FALSE,
          rows |-> [i \in 1..Len(rows) |->
                       JsObject(LowerEntries(rows[i].entries, 1, <<>>))]]

\* column names as the drivers spell them: upper case (Oracle), mixed, lower
RowKeys == {"NAME", "Number0", "total", "name"}

\* the rows of up to MaxFields columns; column names are unique whatever
\* their case, as those of a result set of one table are
KeySeqs ==
    UNION {{ks \in [1..n -> RowKeys] :
                \A i, j \in 1..n : i # j => ToLowerCase(ks[i]) # ToLowerCase(ks[j])}
           : n \in 0..MaxFields}

\* each column carries a value that tells which column it came from
RowOf(ks) == JsObject([i \in 1..Len(ks) |-> <<ks[i], Str(ks[i])>>])

RowInputs == UNION {[1..n -> {RowOf(ks) : ks \in KeySeqs}] : n \in 0..MaxRows}

\* the rows a driver can return when the select list is free: column names are
\* unique as spelled, and two of them may differ in letter case only
\* (SELECT a AS "NAME", b AS "name")
AnyKeySeqs ==
    UNION {{ks \in [1..n -> RowKeys] : \A i, j \in 1..n : i # j => ks[i] # ks[j]}
           : n \in 0..MaxFields}

AnyRowInputs == UNION {[1..n -> {RowOf(ks) : ks \in AnyKeySeqs}] : n \in 0..MaxRows}

NoRows == [n |-> 0, once |-> <<>>, twice |-> <<>>]

\* lowercaseKeys(result.rows || []) on the rows of a result
NormalizeRows ==
    /\ rOut.n = 0
    /\ rOut' = [n |-> 1, once |-> lowercaseKeys(rIn).rows, twice |-> <<>>]
    /\ UNCHANGED rIn
    /\ UNCHANGED pageVars
    /\ UNCHANGED routeVars
    /\ UNCHANGED lifeVars
    /\ UNCHANGED <<tShape, tText, tParams, tOut, tFirst>>

\* lowercaseKeys on rows that came out of lowercaseKeys
NormalizeAgain ==
    /\ rOut.n = 1
    /\ rOut' = [rOut EXCEPT !.n = 2, !.twice = lowercaseKeys(rOut.once).rows]
    /\ UNCHANGED rIn
    /\ UNCHANGED pageVars
    /\ UNCHANGED routeVars
    /\ UNCHANGED lifeVars
    /\ UNCHANGED <<tShape, tText, tParams, tOut, tFirst>>

(***************************************************************************)
(* Page parameters of the list routes (water-system.js lines 269-270,      *)
(* facility.js lines 306-307)                                              *)
(***************************************************************************)
HexAlpha == "0123456789ABCDEF"

\* the value of c as a digit of the radix, -1 when it is not one
DigitValues == [c \in {Ch(HexAlpha, k) : k \in 1..16} |->
                   (CHOOSE k \in 1..16 : Ch(HexAlpha, k) = c) - 1]

RadixVal(c, radix) ==
    Apply(LAMBDA u : IF u \in DOMAIN DigitValues /\ DigitValues[u] < radix
                     THEN DigitValues[u] ELSE -1,
          ToUpperCh(c))

IsRadixDigit(c, radix) == RadixVal(c, radix) >= 0

\* the mathematical integer a digit string denotes in the radix
RECURSIVE RadixValue(_, _)
RadixValue(d, radix) ==
    IF Len(d) = 0 THEN 0
    ELSE radix * RadixValue(SubSeq(d, 1, Len(d) - 1), radix)
         + RadixVal(Ch(d, Len(d)), radix)

\* the Number nearest a mathematical integer: past the largest finite Number
\* it is an infinity
ToNumber(n) ==
    IF n > MaxNumber THEN PosInfinity
    ELSE IF n < -MaxNumber THEN NegInfinity
    ELSE Num(n)

\* parseInt(v) without a radix: String(v), leading white space, a sign, a 0x
\* prefix, then the longest run of digits of the radix; NaN when it is empty
parseInt(v) ==
    LET s == Fmt(v)
        n == Len(s)
        p0 == SpanSpace(s, 1)
        signed == p0 <= n /\ Ch(s, p0) \in {"+", "-"}
        sign == IF p0 <= n /\ Ch(s, p0) = "-" THEN -1 ELSE 1
        p1 == IF signed THEN p0 + 1 ELSE p0
        hex == MatchCI(s, p1, "0X")
        radix == IF hex THEN 16 ELSE 10
        p2 == IF hex THEN p1 + 2 ELSE p1
        e == First(p2, n + 1, LAMBDA q : ~IsRadixDigit(Ch(s, q), radix))
    IN  IF e = p2 THEN NaN
        ELSE ToNumber(sign * RadixValue(SubSeq(s, p2, e - 1), radix))

\* ToBoolean(v) is false
Falsy(v) ==
    \/ v.t \in {"NaN", "undefined", "null"}
    \/ v.t = "number" /\ v.n = 0
    \/ v.t = "string" /\ v.s = ""

\* a || b
JsOr(a, b) == IF Falsy(a) THEN b ELSE a

\* position of a Number on the extended number line
Ord(v) == IF v.t = "infinity" THEN v.n * (MaxNumber + 1) ELSE v.n

\* Math.max(a, b), Math.min(a, b) on Numbers
Math_max(a, b) ==
    IF a.t = "NaN" \/ b.t = "NaN" THEN NaN
    ELSE IF Ord(a) >= Ord(b) THEN a ELSE b

Math_min(a, b) ==
    IF a.t = "NaN" \/ b.t = "NaN" THEN NaN
    ELSE IF Ord(a) <= Ord(b) THEN a ELSE b

\* JSON.stringify of a Number in the response body: a non-finite one is null
JsonNumber(v) == IF v.t = "number" THEN v ELSE JsNull

\* req.query[name]: undefined when the query string does not have it
Query(query, name) == IF name \in DOMAIN query THEN query[name] ELSE Undefined

\* Math.max(0, parseInt(req.query.pageNumber) || 0)
PageNumberOf(query) ==
    Math_max(Num(0), JsOr(parseInt(Query(query, "pageNumber")), Num(0)))

\* Math.min(100, Math.max(1, parseInt(req.query.pageSize) || 10))
PageSizeOf(query) ==
    Math_min(Num(100),
             Math_max(Num(1), JsOr(parseInt(Query(query, "pageSize")), Num(10))))

\* values of one query-string parameter: absent, empty, not a number, zero,
\* in range, negative, at and past the page size limit, digits then text,
\* leading space, hexadecimal, a fraction, and digit strings past the largest
\* finite Number in either direction
PageParams ==
    {Undefined, Str(""), Str("abc"), Str("0"), Str("7"), Str("-5"), Str("100"),
     Str("101"), Str("999"), Str("12abc"), Str(" 42"), Str("0x1F"), Str("2.9"),
     Str("99999"), Str("-99999")}

NoQuery == [pageNumber |-> Undefined, pageSize |-> Undefined]

NoPage ==
    [route |-> "none", pageNumber |-> Undefined, pageSize |-> Undefined,
     reported |-> [pageNumber |-> Undefined, pageSize |-> Undefined]]

\* the page parameters a list route uses, and resultSummary as res.json sends it
PageOf(route, query) ==
    [route |-> route,
     pageNumber |-> PageNumberOf(query),
     pageSize |-> PageSizeOf(query),
     reported |-> [pageNumber |-> JsonNumber(PageNumberOf(query)),
                   pageSize |-> JsonNumber(PageSizeOf(query))]]

\* GET /inventory/water-system
WaterSystemPage ==
    /\ page.route = "none"
    /\ page' = PageOf("water-system", reqQuery)
    /\ UNCHANGED reqQuery
    /\ UNCHANGED routeVars
    /\ UNCHANGED lifeVars
    /\ UNCHANGED <<tShape, tText, tParams, tOut, tFirst, rIn, rOut>>

\* GET /inventory/facility
FacilityPage ==
    /\ page.route = "none"
    /\ page' = PageOf("facility", reqQuery)
    /\ UNCHANGED reqQuery
    /\ UNCHANGED routeVars
    /\ UNCHANGED lifeVars
    /\ UNCHANGED <<tShape, tText, tParams, tOut, tFirst, rIn, rOut>>

(***************************************************************************)
(* JavaScript strings and object literals used by the routes               *)
(***************************************************************************)
\* s.split(','): the pieces between the commas, from position p on
RECURSIVE SplitFrom(_, _)
SplitFrom(s, p) ==
    Apply(LAMBDA q : <<SubSeq(s, p, q - 1)>>
                     \o (IF q > Len(s) THEN <<>> ELSE SplitFrom(s, q + 1)),
          First(p, Len(s) + 1, LAMBDA i : Ch(s, i) = ","))

Split(s) == SplitFrom(s, 1)

\* s.trim()
Trim(s) ==
    LET a == SpanSpace(s, 1)
        inner == {q \in a..Len(s) : ~IsSpace(Ch(s, q))}
    IN  IF inner = {} THEN ""
        ELSE SubSeq(s, a, CHOOSE q \in inner : \A r \in inner : r <= q)

\* s.toUpperCase()
RECURSIVE ToUpperCase(_)
ToUpperCase(s) ==
    IF Len(s) = 0 THEN ""
    ELSE ToUpperCh(Ch(s, 1)) \o ToUpperCase(SubSeq(s, 2, Len(s)))

\* s.startsWith(w), s.includes(w)
StartsWith(s, w) == Len(w) <= Len(s) /\ SubSeq(s, 1, Len(w)) = w
Includes(s, w) == w = "" \/ Contains(s, w)

\* parts.join(sep)
RECURSIVE Join(_, _)
Join(parts, sep) ==
    IF Len(parts) = 0 THEN ""
    ELSE IF Len(parts) = 1 THEN parts[1]
    ELSE parts[1] \o sep \o Join(Tail(parts), sep)

\* the Number a run of digits of the radix stands for, NaN for any other text
DigitsToNumber(sign, digits, radix) ==
    IF Len(digits) > 0 /\ \A q \in 1..Len(digits) : IsRadixDigit(Ch(digits, q), radix)
    THEN ToNumber(sign * RadixValue(digits, radix))
    ELSE NaN

\* StringToNumber of a text without surrounding white space
StringToNumber(s) ==
    IF s = "" THEN Num(0)
    ELSE IF s \in {"Infinity", "+Infinity"} THEN PosInfinity
    ELSE IF s = "-Infinity" THEN NegInfinity
    ELSE IF Ch(s, 1) \in {"+", "-"}
    THEN DigitsToNumber(IF Ch(s, 1) = "-" THEN -1 ELSE 1, SubSeq(s, 2, Len(s)), 10)
    ELSE IF MatchCI(s, 1, "0X") /\ Len(s) > 2 THEN DigitsToNumber(1, SubSeq(s, 3, Len(s)), 16)
    ELSE DigitsToNumber(1, s, 10)

\* Number(s) of a query-string value made of digits, a sign, white space or
\* a 0x prefix, or the word Infinity; any other text is NaN
Number(v) ==
    IF v.t = "undefined" THEN NaN
    ELSE Apply(StringToNumber, Trim(Fmt(v)))

\* a * b on Numbers
JsMul(a, b) ==
    IF a.t = "number" /\ b.t = "number" THEN ToNumber(a.n * b.n)
    ELSE IF a.t \in {"number", "infinity"} /\ b.t \in {"number", "infinity"}
    THEN (IF a.n * b.n = 0 THEN NaN
          ELSE IF (a.n > 0) = (b.n > 0) THEN PosInfinity ELSE NegInfinity)
    ELSE NaN

\* the properties every object literal inherits from Object.prototype
ObjectPrototype ==
    [k \in {"constructor", "toString", "toLocaleString", "valueOf", "hasOwnProperty",
            "isPrototypeOf", "propertyIsEnumerable", "__defineGetter__",
            "__defineSetter__", "__lookupGetter__", "__lookupSetter__", "__proto__"} |->
        IF k = "__proto__" THEN PrototypeObject
        ELSE IF k = "constructor" THEN NativeFunction("Object")
        ELSE NativeFunction(k)]

\* obj[key] on an object literal: an own property, else an inherited one,
\* else undefined
Get(obj, key) ==
    IF key \in DOMAIN obj THEN obj[key]
    ELSE IF key \in DOMAIN ObjectPrototype THEN ObjectPrototype[key]
    ELSE Undefined

(***************************************************************************)
(* The list routes, SQL branch (water-system.js 281-347, facility.js        *)
(* 315-400)                                                                *)
(***************************************************************************)
\* the `if (req.query.X) { conditions.push(...); params.push(...) }` blocks of
\* GET /inventory/water-system, in source order
WaterSystemFilters ==
    << [param |-> "waterSystemId", cond |-> "TRIM(ws.number0) LIKE ", bind |-> "prefix"],
       [param |-> "name", cond |-> "ws.name ILIKE ", bind |-> "infix"],
       [param |-> "wsStatusCode", cond |-> "ws.activity_status_cd = ", bind |-> "raw"],
       [param |-> "fedWSSourceCode", cond |-> "TRIM(ws.d_fed_prim_src_cd) = ",
        bind |-> "raw"],
       [param |-> "fedWSTypeCode", cond |-> "TRIM(ws.d_pws_fed_type_cd) = ",
        bind |-> "raw"],
       [param |-> "wsOwnerTypeCode", cond |-> "TRIM(ws.owner_type_code) = ",
        bind |-> "raw"],
       [param |-> "fedPopulationFrom", cond |-> "ws.d_population_count >= ",
        bind |-> "number"],
       [param |-> "fedPopulationTo", cond |-> "ws.d_population_count <= ",
        bind |-> "number"] >>

\* the same blocks of GET /inventory/water-system/facility
FacilityFilters ==
    << [param |-> "waterSystemId", cond |-> "TRIM(ws.number0) LIKE ", bind |-> "prefix"],
       [param |-> "facilityId", cond |-> "f.tinwsf_is_number = ", bind |-> "number"],
       [param |-> "name", cond |-> "f.name ILIKE ", bind |-> "infix"],
       [param |-> "facilityTypeCode", cond |-> "TRIM(f.type_code) = ", bind |-> "raw"],
       [param |-> "facilityStatusCode", cond |-> "TRIM(f.activity_status_cd) = ",
        bind |-> "raw"],
       [param |-> "facilityAvailabilityCode", cond |-> "TRIM(f.availability_code) = ",
        bind |-> "raw"],
       [param |-> "srcInd", cond |-> "TRIM(f.d_source_flag) = ", bind |-> "upper"],
       [param |-> "facilityWaterTypeCode", cond |-> "TRIM(f.water_type_code) = ",
        bind |-> "raw"],
       [param |-> "treatmentStatusCode", cond |-> "TRIM(f.treatment_stat_cd) = ",
        bind |-> "raw"],
       [param |-> "paAssignedId", cond |-> "TRIM(f.st_asgn_ident_cd) LIKE ",
        bind |-> "prefix"],
       [param |-> "fedFacilityId", cond |-> "f.external_sys_num = ", bind |-> "number"] >>

\* const SORT_COLUMNS of water-system.js
WaterSystemSortColumns ==
    [k \in {"name", "waterSystemId", "wsStatusCode", "fedWSTypeCode", "fedWSSourceCode",
            "fedPopulation", "seasonalInd", "wsOwnerTypeCode", "localName", "createDt"} |->
        CASE k = "name" -> Str("name")
          [] k = "waterSystemId" -> Str("number0")
          [] k = "wsStatusCode" -> Str("activity_status_cd")
          [] k = "fedWSTypeCode" -> Str("d_pws_fed_type_cd")
          [] k = "fedWSSourceCode" -> Str("d_fed_prim_src_cd")
          [] k = "fedPopulation" -> Str("d_population_count")
          [] k = "seasonalInd" -> Null
          [] k = "wsOwnerTypeCode" -> Str("owner_type_code")
          [] k = "localName" -> Str("local_name")
          [] OTHER -> Str("d_initial_ts")]

\* const SORT_COLUMNS of facility.js
FacilitySortColumns ==
    [k \in {"facilityId", "name", "fedFacilityId", "paAssignedId", "srcInd",
            "facilityWaterTypeCode", "facilityStatusCode", "facilityAvailabilityCode",
            "treatmentStatusCode", "avgWaterQuantityPCT", "facilityTypeCode"} |->
        CASE k = "facilityId" -> Str("f.tinwsf_is_number")
          [] k = "name" -> Str("f.name")
          [] k = "fedFacilityId" -> Str("f.external_sys_num")
          [] k = "paAssignedId" -> Str("f.st_asgn_ident_cd")
          [] k = "srcInd" -> Str("f.d_source_flag")
          [] k = "facilityWaterTypeCode" -> Str("f.water_type_code")
          [] k = "facilityStatusCode" -> Str("f.activity_status_cd")
          [] k = "facilityAvailabilityCode" -> Str("f.availability_code")
          [] k = "treatmentStatusCode" -> Str("f.treatment_stat_cd")
          [] k = "avgWaterQuantityPCT" -> Str("f.avg_pct_water_qty")
          [] OTHER -> Str("f.type_code")]

\* const from of facility.js (SCHEMA_PREFIX empty)
FacilityFrom ==
    "tinwsf f\n        JOIN tinwsys ws\n          ON f.tinwsys_is_number = "
    \o "ws.tinwsys_is_number\n         AND f.tinwsys_st_code = ws.tinwsys_st_code"

\* what differs between the SQL branches of the two list handlers
\* (SCHEMA_PREFIX empty, ST_CODE 'MS')
SqlRoute(route) ==
    IF route = "water-system"
    THEN [filters |-> WaterSystemFilters, sortColumns |-> WaterSystemSortColumns,
          first |-> "ws.tinwsys_st_code = 'MS'", sortPrefix |-> "ws.",
          orderBy |-> "ws.name ASC",
          countHead |-> "SELECT COUNT(*) as total FROM tinwsys ws ",
          rowHead |-> "SELECT * FROM tinwsys ws "]
    ELSE [filters |-> FacilityFilters, sortColumns |-> FacilitySortColumns,
          first |-> "f.tinwsys_st_code = 'MS'", sortPrefix |-> "",
          orderBy |-> "f.name ASC",
          countHead |-> "SELECT COUNT(*) as total FROM " \o FacilityFrom \o " ",
          rowHead |-> "SELECT f.*, TRIM(ws.number0) as ws_pwsid, ws.name as ws_name FROM "
                      \o FacilityFrom \o " "]

\* the value params.push(...) pushes for a filter
BindOf(kind, v) ==
    CASE kind = "prefix" -> Str(Fmt(v) \o "%")
      [] kind = "infix" -> Str("%" \o Fmt(v) \o "%")
      [] kind = "number" -> Number(v)
      [] kind = "upper" -> Str(ToUpperCase(Fmt(v)))
      [] OTHER -> v

\* a filter block that does not advance paramIdx
PushFilter_sameIdx(f, v, acc) ==
    [conditions |-> Append(acc.conditions, f.cond \o "$" \o ToString(acc.paramIdx)),
     params |-> Append(acc.params, BindOf(f.bind, v)),
     paramIdx |-> acc.paramIdx]

\* conditions.push(`... $${paramIdx++}`); params.push(...)
PushFilter(f, v, acc) ==
    [conditions |-> Append(acc.conditions, f.cond \o "$" \o ToString(acc.paramIdx)),
     params |-> Append(acc.params, BindOf(f.bind, v)),
     paramIdx |-> acc.paramIdx + 1]

\* the filter blocks from the i-th on
RECURSIVE PushFilters(_, _, _, _)
PushFilters(filters, query, i, acc) ==
    IF i > Len(filters) THEN acc
    ELSE Apply(LAMBDA a : PushFilters(filters, query, i + 1, a),
               IF Falsy(Query(query, filters[i].param)) THEN acc
               ELSE PushFilter(filters[i], Query(query, filters[i].param), acc))

\* the body of the for loop over cols: `if (ssCol) parts.push(...)`
OrderPart(prefix, ssCol, order) ==
    IF Falsy(ssCol) THEN <<>>
    ELSE <<prefix \o Fmt(ssCol) \o " "
           \o (IF ToUpperCase(Trim(Fmt(JsOr(order, Str(""))))) = "DESC"
               THEN "DESC" ELSE "ASC")>>

\* the for loop over cols, from the i-th on
RECURSIVE OrderParts(_, _, _, _, _)
OrderParts(rt, cols, orders, i, parts) ==
    IF i > Len(cols) THEN parts
    ELSE Apply(LAMBDA ps : OrderParts(rt, cols, orders, i + 1, ps),
               parts \o OrderPart(rt.sortPrefix, Get(rt.sortColumns, Trim(cols[i])),
                                  ParamAt(orders, i)))

\* let orderBy
OrderBy(rt, query) ==
    IF Falsy(Query(query, "sortColumns")) THEN rt.orderBy
    ELSE Apply(LAMBDA parts : IF Len(parts) > 0 THEN Join(parts, ", ") ELSE rt.orderBy,
               Apply(LAMBDA orders :
                         OrderParts(rt, Split(Fmt(Query(query, "sortColumns"))),
                                    [k \in 1..Len(orders) |-> Str(orders[k])], 1, <<>>),
                     Split(Fmt(JsOr(Query(query, "sortOrders"), Str(""))))))

\* the text and binds of the two db.query calls, from the filter blocks' result
SqlTexts(rt, acc, where, orderBy, pageSize, pageNumber) ==
    [count |-> [text |-> rt.countHead \o where, params |-> acc.params],
     rows |-> [text |-> rt.rowHead \o where
                        \o "\n         ORDER BY " \o orderBy
                        \o "\n         LIMIT $" \o ToString(acc.paramIdx)
                        \o " OFFSET $" \o ToString(acc.paramIdx + 1),
               params |-> acc.params \o <<pageSize, JsMul(pageNumber, pageSize)>>],
     orderBy |-> orderBy]

\* the SQL branch of a list handler up to its db.query calls
SqlCallsOf(route, query) ==
    \* each intermediate value of the handler is computed once
    Apply(LAMBDA rt :
      Apply(LAMBDA acc :
        Apply(LAMBDA orderBy :
          Apply(LAMBDA pageSize :
                    SqlTexts(rt, acc, "WHERE " \o Join(acc.conditions, " AND "), orderBy,
                             pageSize, PageNumberOf(query)),
                PageSizeOf(query)),
          OrderBy(rt, query)),
        PushFilters(rt.filters, query, 1,
                    [conditions |-> <<rt.first>>, params |-> <<>>, paramIdx |-> 1])),
      SqlRoute(route))

\* no request yet, no db.query call yet
NoReq == [route |-> "none", id |-> "", query |-> <<>>]

NoCallArgs == [text |-> "", params |-> <<>>]

NoSql == [count |-> NoCallArgs, rows |-> NoCallArgs, orderBy |-> ""]

\* a value for each filter parameter of a query string
SampleValue(param) ==
    CASE param \in {"fedPopulationFrom", "facilityId"} -> Str("100")
      [] param \in {"fedPopulationTo", "fedFacilityId"} -> Str("5000")
      [] param = "waterSystemId" -> Str("ms001")
      [] param = "name" -> Str("well")
      [] param = "srcInd" -> Str("y")
      [] OTHER -> Str("A")

FilterNames(route) ==
    {SqlRoute(route).filters[i].param : i \in 1..Len(SqlRoute(route).filters)}

\* the query strings with any subset of the filters of the route
FilterQueries(route) ==
    {[k \in S |-> SampleValue(k)] : S \in SUBSET FilterNames(route)}

\* sortColumns values: supported names, with white space, unknown names, the
\* name mapped to null, names every object inherits, SQL text
SortColumnsValues ==
    {"name", "fedPopulation,name", " name , bogus", "bogus", "seasonalInd",
     "facilityId,bogus", "constructor", "__proto__", "toString,name",
     "name; DROP TABLE tinwsys"}

\* sortOrders values, "-" standing for an absent parameter
SortOrdersValues == {"-", "DESC", "desc,ASC", " desc ", ",DESC", "ASC; DROP TABLE tinwsys"}

SortQueries ==
    {IF o = "-" THEN [k \in {"sortColumns"} |-> Str(c)]
     ELSE [k \in {"sortColumns", "sortOrders"} |-> IF k = "sortColumns" THEN Str(c) ELSE Str(o)]
        : c \in SortColumnsValues, o \in SortOrdersValues}

\* page parameters, with an empty filter value that counts as not supplied
PageQueries ==
    {[k \in {"pageNumber", "pageSize", "name", "wsStatusCode", "facilityTypeCode"} |->
         CASE k = "pageNumber" -> Str(pn)
           [] k = "pageSize" -> Str(ps)
           [] k = "name" -> Str("well")
           [] OTHER -> Str("")]
        : pn \in {"0", "3", "abc"}, ps \in {"5", "0", "999"}}

SqlRequests ==
    {[route |-> r, id |-> "", query |-> q] :
        r \in {"water-system"}, q \in FilterQueries("water-system")}
    \cup {[route |-> r, id |-> "", query |-> q] :
             r \in {"facility"}, q \in FilterQueries("facility")}
    \cup {[route |-> r, id |-> "", query |-> q] :
             r \in {"water-system", "facility"}, q \in SortQueries \cup PageQueries}

\* GET /inventory/water-system, db.mode is not demo: the arguments of the two
\* db.query calls
WaterSystemListSql ==
    /\ mode # "demo"
    /\ req.route = "water-system"
    /\ sqlCalls = NoSql
    /\ sqlCalls' = SqlCallsOf("water-system", req.query)
    /\ UNCHANGED <<req, demoFile, demoData, resp, dbResult>>
    /\ UNCHANGED <<tShape, tText, tParams, tOut, tFirst, rIn, rOut, reqQuery, page>>
    /\ UNCHANGED lifeVars

\* GET /inventory/water-system/facility, db.mode is not demo
FacilityListSql ==
    /\ mode # "demo"
    /\ req.route = "facility"
    /\ sqlCalls = NoSql
    /\ sqlCalls' = SqlCallsOf("facility", req.query)
    /\ UNCHANGED <<req, demoFile, demoData, resp, dbResult>>
    /\ UNCHANGED <<tShape, tText, tParams, tOut, tFirst, rIn, rOut, reqQuery, page>>
    /\ UNCHANGED lifeVars

(***************************************************************************)
(* The list routes, demo branch (water-system.js 8-131 and 274-279,        *)
(* facility.js 53-143 and 311-314)                                         *)
(***************************************************************************)
\* the characters of the demo strings in code unit order
CodeUnits ==
    " -.0123456789ABCDEFGHIJKLMNOPQRSTUVWXYZ[]_abcdefghijklmnopqrstuvwxyz"

CodeTable == [c \in {Ch(CodeUnits, i) : i \in 1..Len(CodeUnits)} |->
                 CHOOSE i \in 1..Len(CodeUnits) : Ch(CodeUnits, i) = c]

CodeOf(c) == CodeTable[c]

\* a < b on strings: by code units, a proper prefix first
StrLess(a, b) ==
    a # b /\
    \E p \in {First(1, Len(b) + 1,
                     LAMBDA q : q > Len(a) \/ Ch(a, q) # Ch(b, q))} :
        /\ p <= Len(b)
        /\ (p = Len(a) + 1 \/ CodeOf(Ch(a, p)) < CodeOf(Ch(b, p)))

\* ToNumber of a value in a relational comparison
ToNumeric(v) ==
    CASE v.t \in {"number", "infinity", "NaN"} -> v
      [] v.t = "null" -> Num(0)
      [] v.t = "string" -> Number(v)
      [] OTHER -> NaN

\* a < b : two strings (an object is compared as its string) by code units,
\* anything else as numbers; false when a side is NaN
JsLess(a, b) ==
    IF a.t \in {"string", "object"} /\ b.t \in {"string", "object"} THEN StrLess(a.s, b.s)
    ELSE \E x \in {ToNumeric(a)} : \E y \in {ToNumeric(b)} :
             x.t # "NaN" /\ y.t # "NaN" /\ Ord(x) < Ord(y)

\* a >= b where a side is a number: both sides as numbers, false when a
\* side is NaN
JsGe(a, b) ==
    \E x \in {ToNumeric(a)} : \E y \in {ToNumeric(b)} :
        x.t # "NaN" /\ y.t # "NaN" /\ Ord(x) >= Ord(y)

\* a property of a demo record, undefined when the record (or the nested
\* object of a path a.b) does not have it
Field(rec, path) == IF path \in DOMAIN rec THEN rec[path] ELSE Undefined

\* v == null
IsNullish(v) == v.t \in {"null", "undefined"}

\* an arrow function of DEMO_SORT_FIELDS that reads the path of a record
Arrow(path) == [t |-> "function", n |-> 1, s |-> path]

\* the blocks of filterDemo of water-system.js, in source order
WaterSystemDemoFilters ==
    << [param |-> "waterSystemId", kind |-> "prefixUpper", path |-> "waterSystemId"],
       [param |-> "name", kind |-> "includesLower", path |-> "name"],
       [param |-> "wsStatusCode", kind |-> "equal",
        path |-> "waterSystemStatus.wsStatusCode"],
       [param |-> "fedWSSourceCode", kind |-> "equal",
        path |-> "fedWaterSystemSourceType.wsSourceCode"],
       [param |-> "fedWSTypeCode", kind |-> "equal",
        path |-> "fedWaterSystemType.wsTypeCode"],
       [param |-> "wsOwnerTypeCode", kind |-> "equal", path |-> "ownerType.wsOwnerTypeCode"],
       [param |-> "fedPopulationFrom", kind |-> "ge", path |-> "fedPopulation"],
       [param |-> "fedPopulationTo", kind |-> "le", path |-> "fedPopulation"] >>

\* the blocks of filterDemo of facility.js
FacilityDemoFilters ==
    << [param |-> "waterSystemId", kind |-> "prefixUpper",
        path |-> "dwpWaterSystem.waterSystemId"],
       [param |-> "facilityId", kind |-> "equalNumber", path |-> "facilityId"],
       [param |-> "name", kind |-> "includesLower", path |-> "name"],
       [param |-> "facilityTypeCode", kind |-> "equal",
        path |-> "facilityType.facilityTypeCode"],
       [param |-> "facilityStatusCode", kind |-> "equal",
        path |-> "facilityStatus.facilityStatusCode"],
       [param |-> "facilityAvailabilityCode", kind |-> "equal",
        path |-> "facilityAvailability.facilityAvailabilityCode"],
       [param |-> "srcInd", kind |-> "equalUpper", path |-> "srcInd"],
       [param |-> "facilityWaterTypeCode", kind |-> "equal",
        path |-> "waterType.facilityWaterTypeCode"],
       [param |-> "treatmentStatusCode", kind |-> "equal",
        path |-> "treatmentStatus.treatmentStatusCode"],
       [param |-> "paAssignedId", kind |-> "prefixBothUpper", path |-> "paAssignedId"],
       [param |-> "fedFacilityId", kind |-> "equalNumber", path |-> "fedFacilityId"] >>

\* const DEMO_SORT_FIELDS of water-system.js
WaterSystemDemoSortFields ==
    [k \in {"name", "waterSystemId", "wsStatusCode", "fedWSTypeCode", "fedWSSourceCode",
            "fedPopulation", "wsOwnerTypeCode", "localName", "createDt"} |->
        CASE k = "wsStatusCode" -> Arrow("waterSystemStatus.wsStatusCode")
          [] k = "fedWSTypeCode" -> Arrow("fedWaterSystemType.wsTypeCode")
          [] k = "fedWSSourceCode" -> Arrow("fedWaterSystemSourceType.wsSourceCode")
          [] k = "wsOwnerTypeCode" -> Arrow("ownerType.wsOwnerTypeCode")
          [] OTHER -> Str(k)]

\* const DEMO_SORT_FIELDS of facility.js
FacilityDemoSortFields ==
    [k \in {"facilityId", "name", "fedFacilityId", "paAssignedId", "srcInd",
            "facilityWaterTypeCode", "facilityStatusCode", "facilityAvailabilityCode",
            "treatmentStatusCode", "avgWaterQuantityPCT", "facilityTypeCode"} |->
        CASE k = "facilityWaterTypeCode" -> Arrow("waterType.facilityWaterTypeCode")
          [] k = "facilityStatusCode" -> Arrow("facilityStatus.facilityStatusCode")
          [] k = "facilityAvailabilityCode" ->
                 Arrow("facilityAvailability.facilityAvailabilityCode")
          [] k = "treatmentStatusCode" -> Arrow("treatmentStatus.treatmentStatusCode")
          [] k = "facilityTypeCode" -> Arrow("facilityType.facilityTypeCode")
          [] OTHER -> Str(k)]

\* what differs between the demo branches of the two routes
DemoRoute(route) ==
    IF route = "water-system"
    THEN [filters |-> WaterSystemDemoFilters, sortFields |-> WaterSystemDemoSortFields,
          idPath |-> "waterSystemId", label |-> "Water system"]
    ELSE [filters |-> FacilityDemoFilters, sortFields |-> FacilityDemoSortFields,
          idPath |-> "facilityId", label |-> "Facility"]

\* the predicate of one results.filter(...) call of filterDemo, for a record
Keeps(f, v, rec) ==
    \E x \in {Field(rec, f.path)} :
        CASE f.kind = "prefixUpper" ->
                 x.t = "string" /\ StartsWith(x.s, ToUpperCase(Fmt(v)))
          [] f.kind = "prefixBothUpper" ->
                 x.t = "string" /\ StartsWith(ToUpperCase(x.s), ToUpperCase(Fmt(v)))
          [] f.kind = "includesLower" ->
                 x.t = "string" /\ Includes(ToLowerCase(x.s), ToLowerCase(Fmt(v)))
          [] f.kind = "equalUpper" ->
                 x.t = "string" /\ ToUpperCase(x.s) = ToUpperCase(Fmt(v))
          [] f.kind = "equalNumber" -> x.t = "number" /\ x = Number(v)
          [] f.kind = "ge" -> JsGe(x, Number(v))
          [] f.kind = "le" -> JsGe(Number(v), x)
          [] OTHER -> x = v

\* a filter block that keeps the results when no record passes
ApplyFilter_keepIfEmpty(f, v, results) ==
    IF SelectSeq(results, LAMBDA rec : Keeps(f, v, rec)) = <<>> THEN results
    ELSE SelectSeq(results, LAMBDA rec : Keeps(f, v, rec))

\* results = results.filter(...)
ApplyFilter(f, v, results) ==
    SelectSeq(results, LAMBDA rec : Keeps(f, v, rec))

\* the if blocks of filterDemo from the i-th on
RECURSIVE FilterBlocks(_, _, _, _)
FilterBlocks(filters, query, i, results) ==
    IF i > Len(filters) THEN results
    ELSE Apply(LAMBDA r : FilterBlocks(filters, query, i + 1, r),
               IF Falsy(Query(query, filters[i].param)) THEN results
               ELSE ApplyFilter(filters[i], Query(query, filters[i].param), results))

\* a filterDemo that starts from the array it was given
FilterStart_noCopy(data, query, filters) ==
    IF \A i \in 1..Len(filters) : Falsy(Query(query, filters[i].param))
    THEN "data" ELSE "copy"

\* let results = [...data]: the array filterDemo returns is never the one it
\* was given ("copy"), whatever filters apply
FilterStart(data, query, filters) == "copy"

\* filterDemo(data, query): the records kept
filterDemo(data, query, filters) == FilterBlocks(filters, query, 1, data)

\* a TypeError thrown while a sort value is read
Thrown == [t |-> "throw", n |-> 0, s |-> "TypeError"]

\* typeof field === 'function' ? field(a) : a[field], for the value that
\* DEMO_SORT_FIELDS[cols[i]] gave: an own entry reads the record; the
\* inherited Object gives the record itself, the inherited toString, called
\* without a receiver, the text of undefined, the other inherited functions
\* throw for want of a receiver, and the inherited __proto__ object names a
\* property no record has
SortValue(field, rec) ==
    CASE field.t = "string" -> Field(rec, field.s)
      [] field.t = "function" /\ field.n = 1 -> Field(rec, field.s)
      [] field = NativeFunction("Object") -> PrototypeObject
      [] field = NativeFunction("toString") -> Str("[object Undefined]")
      [] field.t = "function" -> Thrown
      [] OTHER -> Field(rec, Fmt(field))

\* const dir = orders[i] === 'DESC' ? -1 : 1
Direction(order) == IF order = Str("DESC") THEN -1 ELSE 1

\* the comparator handed to data.sort, from the i-th column on: negative,
\* zero or positive, or 2 when reading a sort value throws
RECURSIVE Compare(_, _, _, _, _, _)
Compare(a, b, cols, orders, fields, i) ==
    IF i > Len(cols) THEN 0
    ELSE LET field == Get(fields, cols[i])
             dir == Direction(ParamAt(orders, i))
             valA == SortValue(field, a)
             valB == SortValue(field, b)
         IN  CASE Falsy(field) -> Compare(a, b, cols, orders, fields, i + 1)
               [] valA = Thrown \/ valB = Thrown -> 2
               [] IsNullish(valA) /\ IsNullish(valB) ->
                      Compare(a, b, cols, orders, fields, i + 1)
               [] IsNullish(valA) -> dir
               [] IsNullish(valB) -> 0 - dir
               [] JsLess(valA, valB) -> 0 - dir
               [] JsLess(valB, valA) -> dir
               [] OTHER -> Compare(a, b, cols, orders, fields, i + 1)

\* the results of the comparator for every two records of data
CompareAll(data, cols, orders, fields) ==
    [j \in 1..Len(data) |-> [k \in 1..Len(data) |->
        Compare(data[j], data[k], cols, orders, fields, 1)]]

\* Array.prototype.sort with the comparator results cmp: a stable sort, so a
\* record goes after the records that compare before it and after the
\* earlier records that compare equal to it
StableSort(data, cmp) ==
    Apply(LAMBDA rank : [r \in 1..Len(data) |->
                             data[CHOOSE k \in 1..Len(data) : rank[k] = r]],
          [k \in 1..Len(data) |->
              Cardinality({j \in 1..Len(data) :
                              cmp[j][k] < 0 \/ (cmp[j][k] = 0 /\ j < k)}) + 1])

\* whether the comparator throws during data.sort: it is called as soon as
\* the array has two elements
SortThrows(data, cmp) == \E j, k \in 1..Len(data) : j # k /\ cmp[j][k] = 2

\* sortColumns.split(',').map(s => s.trim())
SortCols(sortColumns) ==
    Apply(LAMBDA parts : [k \in 1..Len(parts) |-> Trim(parts[k])],
          Split(Fmt(sortColumns)))

\* (sortOrders || '').split(',').map(s => s.trim().toUpperCase())
SortOrders(sortOrders) ==
    Apply(LAMBDA parts : [k \in 1..Len(parts) |-> Str(ToUpperCase(Trim(parts[k])))],
          Split(Fmt(JsOr(sortOrders, Str("")))))

\* sortDemo(data, sortColumns, sortOrders): the array it returns, or thrown.
\* `sorted` tells whether data.sort ran, which reorders `data` itself
sortDemo(data, sortColumns, sortOrders, fields) ==
    IF Falsy(sortColumns) THEN [sorted |-> FALSE, thrown |-> FALSE, data |-> data]
    ELSE Apply(LAMBDA cmp :
                   IF SortThrows(data, cmp)
                   THEN [sorted |-> TRUE, thrown |-> TRUE, data |-> data]
                   ELSE [sorted |-> TRUE, thrown |-> FALSE, data |-> StableSort(data, cmp)],
               CompareAll(data, SortCols(sortColumns), SortOrders(sortOrders), fields))

\* ToIntegerOrInfinity of a slice bound, clamped to 0..len
SliceBound(v, len) ==
    CASE v.t = "infinity" -> IF v.n > 0 THEN len ELSE 0
      [] v.t = "number" -> IF v.n < 0 THEN (IF len + v.n < 0 THEN 0 ELSE len + v.n)
                           ELSE IF v.n > len THEN len ELSE v.n
      [] OTHER -> 0

\* a slice that takes the element at `end` as well
Slice_inclusive(arr, start, end) ==
    SubSeq(arr, SliceBound(start, Len(arr)) + 1,
           IF SliceBound(end, Len(arr)) < Len(arr) THEN SliceBound(end, Len(arr)) + 1
           ELSE Len(arr))

\* arr.slice(start, end)
Slice(arr, start, end) ==
    SubSeq(arr, SliceBound(start, Len(arr)) + 1, SliceBound(end, Len(arr)))

\* Math.ceil(totalCount / pageSize)
Math_ceil_div(a, b) ==
    CASE b.t = "infinity" -> Num(0)
      [] b.t = "number" /\ b.n > 0 -> Num((a + b.n - 1) \div b.n)
      [] OTHER -> NaN


\* no response yet
NoRes == [status |-> 0, error |-> Null, totalCount |-> Undefined, totalPages |-> Undefined,
          pageNumber |-> Undefined, pageSize |-> Undefined, records |-> <<>>]

\* ---- the data and the requests of the demo branch ----

Routes == {"water-system", "facility"}

\* let _demoData = null, and the array once getDemoData has loaded the file
NoCache == [loaded |-> FALSE, data |-> <<>>]
NoCaches == [r \in Routes |-> NoCache]
NoFiles == [r \in Routes |-> <<>>]

\* records a demo/water-systems.json may hold: names in mixed case, two
\* records with the same population, one record without name and population
WaterSystemRecord(id, name, status, source, population) ==
    ("waterSystemId" :> Str(id)) @@ ("name" :> name)
    @@ ("waterSystemStatus.wsStatusCode" :> Str(status))
    @@ ("fedWaterSystemSourceType.wsSourceCode" :> Str(source))
    @@ ("fedWaterSystemType.wsTypeCode" :> Str("C"))
    @@ ("fedPopulation" :> population)

WaterSystemPool ==
    << WaterSystemRecord("XX0010001", Str("Alpha Well"), "A", "GW", Num(500)),
       WaterSystemRecord("XX0020002", Str("beta"), "A", "SW", Num(100)),
       WaterSystemRecord("XX0010003", Str("Gamma well"), "I", "GW", Num(100)),
       WaterSystemRecord("XY0040004", Null, "I", "GW", Null) >>

\* records a demo/facilities.json may hold
FacilityRecord(id, pwsid, name, type, srcInd, paAssignedId, fedFacilityId) ==
    ("facilityId" :> Num(id)) @@ ("dwpWaterSystem.waterSystemId" :> Str(pwsid))
    @@ ("name" :> name) @@ ("facilityType.facilityTypeCode" :> Str(type))
    @@ ("srcInd" :> Str(srcInd)) @@ ("paAssignedId" :> paAssignedId)
    @@ ("fedFacilityId" :> fedFacilityId)

FacilityPool ==
    << FacilityRecord(1, "XX0010001", Str("Well 1"), "WL", "Y", Str("w-1"), Num(10)),
       FacilityRecord(2, "XX0010001", Str("Plant"), "TP", "N", Str("P-2"), Num(20)),
       FacilityRecord(3, "XX0020002", Str("well 3"), "WL", "y", Null, Num(10)),
       FacilityRecord(11, "XY0040004", Null, "DS", "N", Str("W-4"), Null) >>

DemoPool(route) == IF route = "water-system" THEN WaterSystemPool ELSE FacilityPool

\* the arrays a demo file may hold: up to MaxRecords records of the pool, no
\* record twice, in any order
DemoArrays(route) ==
    UNION {{[k \in 1..n |-> DemoPool(route)[f[k]]] :
                f \in {g \in [1..n -> 1..Len(DemoPool(route))] :
                          \A j, k \in 1..n : j # k => g[j] # g[k]}} :
           n \in 0..(IF MaxRecords < Len(DemoPool(route)) THEN MaxRecords
                     ELSE Len(DemoPool(route)))}

\* the files of one behaviour: one route has records, the other an empty array
DemoFiles ==
    UNION {{[r \in Routes |-> IF r = route THEN arr ELSE <<>>] :
               arr \in DemoArrays(route)} : route \in Routes}

\* values of the filter parameters: matching in another case, matching
\* nothing, not a number, and the empty string that counts as not supplied
DemoValues(param) ==
    CASE param = "waterSystemId" -> {Str("xx001"), Str("XY")}
      [] param = "name" -> {Str("WELL")}
      [] param = "wsStatusCode" -> {Str("A"), Str("Z")}
      [] param = "fedWSSourceCode" -> {Str("GW")}
      [] param = "fedWSTypeCode" -> {Str("C")}
      [] param = "fedPopulationFrom" -> {Str("100"), Str("abc")}
      [] param = "fedPopulationTo" -> {Str("100"), Str("")}
      [] param = "facilityId" -> {Str("1"), Str("abc")}
      [] param = "facilityTypeCode" -> {Str("WL"), Str("wl")}
      [] param = "srcInd" -> {Str("y")}
      [] param = "paAssignedId" -> {Str("w")}
      [] param = "fedFacilityId" -> {Str("10")}
      [] OTHER -> {Str("L")}

\* the query strings with up to MaxFilters of the filters from the i-th on
RECURSIVE DemoFilterQueriesFrom(_, _, _)
DemoFilterQueriesFrom(filters, i, qs) ==
    IF i > Len(filters) THEN qs
    ELSE DemoFilterQueriesFrom(filters, i + 1,
             qs \cup {q @@ (filters[i].param :> v) :
                         q \in {x \in qs : Cardinality(DOMAIN x) < MaxFilters},
                         v \in DemoValues(filters[i].param)})

DemoFilterQueries(route) == DemoFilterQueriesFrom(DemoRoute(route).filters, 1, {<<>>})

\* sortColumns values: supported names of either route, with white space,
\* unknown names, names every object inherits
DemoSortColumnsValues ==
    {"name", "fedPopulation,name", "fedFacilityId,name", " wsStatusCode , waterSystemId",
     " facilityTypeCode , facilityId", "waterSystemId", "facilityId", "bogus",
     "bogus,name", "constructor", "__proto__", "toString", "valueOf",
     "hasOwnProperty,name"}

DemoSortOrdersValues == {"-", "DESC", "desc,ASC", ",DESC"}

DemoSortQueries ==
    {("sortColumns" :> Str(c)) @@ (IF o = "-" THEN <<>> ELSE ("sortOrders" :> Str(o)))
     @@ f : c \in DemoSortColumnsValues, o \in DemoSortOrdersValues,
            f \in {<<>>, ("name" :> Str("e"))}}

DemoPageQueries ==
    {(IF pn = "-" THEN <<>> ELSE ("pageNumber" :> Str(pn)))
     @@ (IF ps = "-" THEN <<>> ELSE ("pageSize" :> Str(ps))) @@ f @@ o :
        pn \in {"-", "1", "2"}, ps \in {"-", "1", "2"},
        f \in {<<>>, ("name" :> Str("e"))},
        o \in {<<>>, ("sortColumns" :> Str("name")) @@ ("sortOrders" :> Str("DESC"))}}

\* the list requests of SpecF
DemoQueries(route) == DemoFilterQueries(route) \cup DemoSortQueries \cup DemoPageQueries

\* the list requests of SpecD: unsorted ones, sorted ones, with and without a
\* filter and a page
DemoSeqQueries ==
    {<<>>, ("pageSize" :> Str("2")),
     ("sortColumns" :> Str("name")),
     ("sortColumns" :> Str("name")) @@ ("sortOrders" :> Str("DESC")),
     ("sortColumns" :> Str("facilityId")) @@ ("sortOrders" :> Str("desc"))
        @@ ("pageSize" :> Str("1")),
     ("sortColumns" :> Str("fedPopulation,waterSystemId")) @@ ("name" :> Str("e")),
     ("sortColumns" :> Str("bogus")),
     ("sortColumns" :> Str("valueOf"))}

\* the IDs of the get-by-ID requests: of a record, of no record, in another
\* spelling, not a number
DemoIds == {"XX0010001", "xx0010001", "XX001", "1", "01", "11", "7", "abc"}

\* ---- the handlers, demo branch ----

\* getDemoData(): the cache after the call
getDemoData(cache, file) ==
    IF ~cache.loaded THEN [loaded |-> TRUE, data |-> file] ELSE cache

\* res.status(code).json({ error: { message } })
ErrorResponse(code, message) == [NoRes EXCEPT !.status = code, !.error = Str(message)]

\* res.json({ error: null, resultSummary: {...}, waterSystems }) after
\* filtered.slice(pageNumber * pageSize, (pageNumber + 1) * pageSize)
ListResponse(filtered, pageNumber, pageSize) ==
    [status |-> 200, error |-> Null,
     totalCount |-> Num(Len(filtered)),
     totalPages |-> Math_ceil_div(Len(filtered), pageSize),
     pageNumber |-> JsonNumber(pageNumber),
     pageSize |-> JsonNumber(pageSize),
     records |-> Slice(filtered, JsMul(pageNumber, pageSize),
                       JsMul(JsAdd(pageNumber, Num(1)), pageSize))]

\* the demo branch of router.get('/') and the response, for a route and the
\* query of the request.  data.sort reorders the array sortDemo was given,
\* which is the cached array only if filterDemo returned that very array
ListDemo(route, query) ==
    \E cache \in {getDemoData(demoData[route], demoFile[route])} :
    \E kept \in {filterDemo(cache.data, query, DemoRoute(route).filters)} :
    \E sd \in {sortDemo(kept, Query(query, "sortColumns"), Query(query, "sortOrders"),
                        DemoRoute(route).sortFields)} :
        /\ demoData' = [demoData EXCEPT ![route] =
               IF FilterStart(cache.data, query, DemoRoute(route).filters) = "data"
                  /\ sd.sorted /\ ~sd.thrown
               THEN [cache EXCEPT !.data = sd.data] ELSE cache]
        /\ resp' = IF sd.thrown THEN ErrorResponse(500, Thrown.s)
                   ELSE ListResponse(sd.data, PageNumberOf(query), PageSizeOf(query))
        /\ req' = [route |-> route, id |-> "", query |-> query]
        /\ UNCHANGED <<sqlCalls, demoFile, dbResult>>
        /\ UNCHANGED <<tShape, tText, tParams, tOut, tFirst, rIn, rOut, reqQuery, page>>
        /\ UNCHANGED lifeVars

\* GET /inventory/water-system in demo mode
WaterSystemListDemo ==
    /\ mode = "demo"
    /\ \E query \in DemoSeqQueries : ListDemo("water-system", query)

\* GET /inventory/water-system/facility in demo mode
FacilityListDemo ==
    /\ mode = "demo"
    /\ \E query \in DemoSeqQueries : ListDemo("facility", query)

\* GET /inventory/water-system in demo mode, for the request of the behaviour
WaterSystemListDemoOnce ==
    /\ mode = "demo"
    /\ req.route = "water-system"
    /\ resp = NoRes
    /\ ListDemo("water-system", req.query)

\* GET /inventory/water-system/facility in demo mode, for the request of the
\* behaviour
FacilityListDemoOnce ==
    /\ mode = "demo"
    /\ req.route = "facility"
    /\ resp = NoRes
    /\ ListDemo("facility", req.query)

\* req.params.waterSystemId, or Number(req.params.facilityId)
IdKey(route, id) == IF route = "water-system" THEN Str(id) ELSE Number(Str(id))

\* getDemoData().find(r => r.<id> === key): the record found, in a sequence
\* of at most one
Find(data, path, key) ==
    Apply(LAMBDA hits : IF hits = <<>> THEN <<>> ELSE <<hits[1]>>,
          SelectSeq(data, LAMBDA rec : key.t # "NaN" /\ Field(rec, path) = key))

\* the demo branch of router.get('/:id') and the response
GetDemo(route, id) ==
    \E cache \in {getDemoData(demoData[route], demoFile[route])} :
    \E found \in {Find(cache.data, DemoRoute(route).idPath, IdKey(route, id))} :
        /\ demoData' = [demoData EXCEPT ![route] = cache]
        /\ resp' = IF found = <<>>
                   THEN ErrorResponse(404, DemoRoute(route).label \o " " \o id
                                           \o " not found")
                   ELSE [NoRes EXCEPT !.status = 200, !.records = found]
        /\ req' = [route |-> route, id |-> id, query |-> <<>>]
        /\ UNCHANGED <<sqlCalls, demoFile, dbResult>>
        /\ UNCHANGED <<tShape, tText, tParams, tOut, tFirst, rIn, rOut, reqQuery, page>>
        /\ UNCHANGED lifeVars

\* GET /inventory/water-system/:waterSystemId in demo mode
WaterSystemGetDemo ==
    /\ mode = "demo"
    /\ \E id \in DemoIds : GetDemo("water-system", id)

\* GET /inventory/water-system/facility/:facilityId in demo mode
FacilityGetDemo ==
    /\ mode = "demo"
    /\ \E id \in DemoIds : GetDemo("facility", id)

\* ---- the get-by-ID handlers with a database backend ----

\* no db.query awaited yet
NoDbResult == [state |-> "none", rows |-> <<>>]

\* rows of tinwsys (number0 is a padded CHAR column; one ID twice) and of
\* tinwsf joined with tinwsys, with the lower case keys db.query returns
DbTable(route) ==
    IF route = "water-system"
    THEN << [number0 |-> Str("XX0010001 "), name |-> Str("ALPHA")],
            [number0 |-> Str("XX0010001"), name |-> Str("BETA")],
            [number0 |-> Str("XX001"), name |-> Str("GAMMA")] >>
    ELSE << [tinwsf_is_number |-> Num(1), name |-> Str("WELL 1")],
            [tinwsf_is_number |-> Num(11), name |-> Str("PLANT")] >>

\* the text and the bind of the db.query call of router.get('/:id')
GetSqlCall(route, id) ==
    IF route = "water-system"
    THEN [text |-> "SELECT * FROM tinwsys ws\n         WHERE TRIM(ws.number0) = $1"
                   \o " AND ws.tinwsys_st_code = 'MS'",
          params |-> <<Str(id)>>]
    ELSE [text |-> "SELECT f.*, TRIM(ws.number0) as ws_pwsid, ws.name as ws_name\n"
                   \o "         FROM tinwsf f\n         JOIN tinwsys ws\n"
                   \o "           ON f.tinwsys_is_number = ws.tinwsys_is_number\n"
                   \o "          AND f.tinwsys_st_code = ws.tinwsys_st_code\n"
                   \o "         WHERE f.tinwsf_is_number = $1 AND f.tinwsys_st_code = 'MS'",
          params |-> <<Number(Str(id))>>]

\* the rows of the table that the WHERE clause of the call selects
Selected(route, call) ==
    IF route = "water-system"
    THEN SelectSeq(DbTable(route), LAMBDA row : Trim(row.number0.s) = call.params[1].s)
    ELSE SelectSeq(DbTable(route),
                   LAMBDA row : call.params[1].t = "number"
                                /\ row.tinwsf_is_number = call.params[1])

\* how the awaited db.query can settle: with the selected rows, or rejected
\* (the backend is down, the statement fails)
DbResults(route, call) ==
    {[state |-> "fulfilled", rows |-> Selected(route, call)],
     [state |-> "rejected", rows |-> <<>>]}

\* mapRow(row), the ID and the name of the record
mapRow(route, row) ==
    IF route = "water-system"
    THEN ("waterSystemId" :> JsOr(Str(Trim(row.number0.s)), Null)) @@ ("name" :> row.name)
    ELSE ("facilityId" :> row.tinwsf_is_number) @@ ("name" :> row.name)

\* a handler that answers 404 when db.query rejects
GetResponse_rejected404(route, id, result) ==
    IF result.state = "rejected" \/ result.rows = <<>>
    THEN ErrorResponse(404, DemoRoute(route).label \o " " \o id \o " not found")
    ELSE [NoRes EXCEPT !.status = 200, !.records = <<mapRow(route, result.rows[1])>>]

\* the response of router.get('/:id') once the awaited db.query has settled:
\* the catch block, the 404 of `if (!record)`, or the first row mapped
GetResponse(route, id, result) ==
    IF result.state = "rejected" THEN ErrorResponse(500, "query failed")
    ELSE IF result.rows = <<>>
    THEN ErrorResponse(404, DemoRoute(route).label \o " " \o id \o " not found")
    ELSE [NoRes EXCEPT !.status = 200, !.records = <<mapRow(route, result.rows[1])>>]

\* router.get('/:id') when db.mode is not demo
GetSql(route, id) ==
    \E call \in {GetSqlCall(route, id)} : \E result \in DbResults(route, call) :
        /\ sqlCalls' = [NoSql EXCEPT !.rows = call]
        /\ dbResult' = result
        /\ resp' = GetResponse(route, id, result)
        /\ req' = [route |-> route, id |-> id, query |-> <<>>]
        /\ UNCHANGED <<demoFile, demoData>>
        /\ UNCHANGED <<tShape, tText, tParams, tOut, tFirst, rIn, rOut, reqQuery, page>>
        /\ UNCHANGED lifeVars

\* GET /inventory/water-system/:waterSystemId with a database backend
WaterSystemGetSql ==
    /\ mode # "demo"
    /\ \E id \in DemoIds : GetSql("water-system", id)

\* GET /inventory/water-system/facility/:facilityId with a database backend
FacilityGetSql ==
    /\ mode # "demo"
    /\ \E id \in DemoIds : GetSql("facility", id)

(***************************************************************************)
(* Mode selection (db.js lines 17-19 and the if / else if chain)           *)
(***************************************************************************)
EnvUnset == [set |-> FALSE, val |-> ""]
EnvVal(v) == [set |-> TRUE, val |-> v]

\* !!process.env.X : set and not the empty string
Truthy(e) == e.set /\ e.val # ""

\* mutant: any non-empty DEMO_MODE forces demo
FORCE_DEMO_truthy == Truthy(env.DEMO_MODE)

FORCE_DEMO == env.DEMO_MODE.set /\ env.DEMO_MODE.val = "true"
USE_MSSQL == ~FORCE_DEMO /\ Truthy(env.MSSQL_SERVER)
USE_ORACLE == ~FORCE_DEMO /\ ~USE_MSSQL /\ Truthy(env.ORACLE_USER)

\* the branch of the if / else if chain that runs at module load; it fixes
\* which query function is exported
SelectedMode ==
    IF FORCE_DEMO THEN "demo"
    ELSE IF USE_MSSQL THEN "mssql"
    ELSE IF USE_ORACLE THEN "oracle"
    ELSE "postgresql"

\* the environments mode selection is checked on (SpecM)
EnvValues ==
    [DEMO_MODE : {EnvUnset, EnvVal("true"), EnvVal("false"), EnvVal("TRUE")},
     MSSQL_SERVER : {EnvUnset, EnvVal(""), EnvVal("sqlhost")},
     ORACLE_USER : {EnvUnset, EnvVal(""), EnvVal("sdwis")}]

\* one environment per selected mode, for the processes of Spec
StartEnvs ==
    {[DEMO_MODE |-> EnvVal("true"), MSSQL_SERVER |-> EnvVal("sqlhost"),
      ORACLE_USER |-> EnvVal("sdwis")],
     [DEMO_MODE |-> EnvVal("false"), MSSQL_SERVER |-> EnvVal("sqlhost"),
      ORACLE_USER |-> EnvVal("sdwis")],
     [DEMO_MODE |-> EnvUnset, MSSQL_SERVER |-> EnvVal(""),
      ORACLE_USER |-> EnvVal("sdwis")],
     [DEMO_MODE |-> EnvUnset, MSSQL_SERVER |-> EnvUnset, ORACLE_USER |-> EnvUnset]}


(***************************************************************************)
(* Spec: mode lifecycle, query entry points, list routes                   *)
(***************************************************************************)
poolMax == 10

Callers == 1..NCalls

\* what a driver may hand back for a statement: no row, one row with an
\* upper-case key, a null in place of a row
DriverRows ==
    {<<>>, <<JsObject(<< <<"TOTAL", Num(3)>> >>)>>, <<JsNull>>}

\* seenMode: db.mode as read when the call was made; raced: the call was
\* made while poolReady was pending; touchPool, touchMode, touchEarly: the
\* values of pool and mode, and whether poolReady was pending, when the
\* call dereferenced pool; sent: how often the call handed its statement to
\* the driver; drvErr: the error the driver rejected the statement with;
\* datasource: what GET /health reported
NoCall ==
    [pc |-> "idle", kind |-> "none", phase |-> "none", seenMode |-> "none",
     raced |-> FALSE,
     touchPool |-> "none", touchMode |-> "none", touchEarly |-> FALSE,
     conn |-> "none", res |-> "none", rows |-> <<>>, err |-> "",
     pendRes |-> "none", pendRows |-> <<>>, pendErr |-> "", status |-> 0,
     sent |-> 0, drvErr |-> "", datasource |-> ""]

\* mutant: a failed backend falls back to the default dialect
DemotedMode_postgresql == "postgresql"

\* the value mode takes when a connection attempt or the probe fails
DemotedMode == "demo"

\* mutant: query does not await poolReady
poolReadyFulfilled_noAwait == TRUE

\* poolReady (the promise returned by .then(..).catch(..)) is fulfilled
poolReadyFulfilled == startup \in {"ready", "fallback"}

\* the async function returns rows / throws err
Returned(call, rows) == [call EXCEPT !.pc = "settled", !.res = "rows", !.rows = rows]
Threw(call, err) == [call EXCEPT !.pc = "settled", !.res = "error", !.err = err]

\* the call dereferences pool (pool.request(), pool.getConnection(), pool.query())
Touch(call) ==
    [call EXCEPT !.touchPool = pool, !.touchMode = mode,
                 !.touchEarly = ~poolReadyFulfilled]

\* the call hands its statement to the driver:
\* request.query(mssqlText), conn.execute(oraText, binds), pool.query(text, params)
Send(call) == [call EXCEPT !.sent = @ + 1]

\* mutant: the connection is closed after a successful execute only
Finally_closeOnSuccessOnly(call, res, rows, err) ==
    IF call.conn = "open" /\ res = "rows"
    THEN [call EXCEPT !.pc = "awaitClose", !.pendRes = res, !.pendRows = rows,
                      !.pendErr = err]
    ELSE [call EXCEPT !.pc = "settled", !.res = res, !.rows = rows, !.err = err]

\* the oracle try block ends with this outcome: finally { if (conn) await conn.close() }
Finally(call, res, rows, err) ==
    IF call.conn = "open"
    THEN [call EXCEPT !.pc = "awaitClose", !.pendRes = res, !.pendRows = rows,
                      !.pendErr = err]
    ELSE [call EXCEPT !.pc = "settled", !.res = res, !.rows = rows, !.err = err]

\* mutant: the demo branch exports the query function of the default branch
QueryEnter_demoUsesPool(call) ==
    IF SelectedMode \in {"mssql", "oracle"} THEN [call EXCEPT !.pc = "awaitPoolReady"]
    ELSE [Send(Touch(call)) EXCEPT !.pc = "awaitExec"]

\* query(text, params) up to its first await, for the query function that
\* the selected branch exported
QueryEnter(call) ==
    CASE SelectedMode = "demo" -> Returned(call, <<>>)
      [] SelectedMode \in {"mssql", "oracle"} -> [call EXCEPT !.pc = "awaitPoolReady"]
      [] OTHER -> [Send(Touch(call)) EXCEPT !.pc = "awaitExec"]

\* ---- startup promise chains ----

\* sql.connect(config) / oracledb.createPool(config) fulfils
ConnectResolve ==
    /\ startup = "connecting"
    /\ startup' = "connected"
    /\ UNCHANGED <<env, mode, pool, calls, openConns>>
    /\ UNCHANGED transVars

\* sql.connect(config) / oracledb.createPool(config) rejects
ConnectReject ==
    /\ startup = "connecting"
    /\ startup' = "connectFailed"
    /\ UNCHANGED <<env, mode, pool, calls, openConns>>
    /\ UNCHANGED transVars

\* .then(p => { pool = p; ... })
ThenHandler ==
    /\ startup = "connected"
    /\ pool' = "Pool"
    /\ startup' = "poolSet"
    /\ UNCHANGED <<env, mode, calls, openConns>>
    /\ UNCHANGED transVars

\* the .catch(..) promise adopts the fulfilment of the .then(..) promise
PoolReadySettle ==
    /\ startup = "poolSet"
    /\ startup' = "ready"
    /\ UNCHANGED <<env, mode, pool, calls, openConns>>
    /\ UNCHANGED transVars

\* mutant: the handler logs the failure and leaves mode alone
CatchHandler_noDemote ==
    /\ startup = "connectFailed"
    /\ startup' = "fallback"
    /\ UNCHANGED <<env, mode, pool, calls, openConns>>
    /\ UNCHANGED transVars

\* .catch(err => { ...; mode = 'demo'; }) ; its return fulfils poolReady
CatchHandler ==
    /\ startup = "connectFailed"
    /\ mode' = DemotedMode
    /\ startup' = "fallback"
    /\ UNCHANGED <<env, pool, calls, openConns>>
    /\ UNCHANGED transVars

\* pool.query('SELECT 1') fulfils
ProbeResolve ==
    /\ startup = "probing"
    /\ startup' = "probeOk"
    /\ UNCHANGED <<env, mode, pool, calls, openConns>>
    /\ UNCHANGED transVars

\* pool.query('SELECT 1') rejects
ProbeReject ==
    /\ startup = "probing"
    /\ startup' = "probeFailed"
    /\ UNCHANGED <<env, mode, pool, calls, openConns>>
    /\ UNCHANGED transVars

\* .catch(() => { ...; mode = 'demo'; })
ProbeCatch ==
    /\ startup = "probeFailed"
    /\ mode' = DemotedMode
    /\ startup' = "probeHandled"
    /\ UNCHANGED <<env, pool, calls, openConns>>
    /\ UNCHANGED transVars

\* ---- db.query ----

\* a caller invokes db.query(text, params)
QueryCall(c) ==
    /\ calls[c].pc = "idle"
    /\ calls' = [calls EXCEPT ![c] =
          QueryEnter([NoCall EXCEPT !.kind = "query", !.seenMode = mode,
                                    !.raced = ~poolReadyFulfilled])]
    /\ UNCHANGED <<env, mode, pool, startup, openConns>>
    /\ UNCHANGED transVars

\* mssql / oracle: the segment after `await poolReady`
AfterPoolReady(c) ==
    /\ calls[c].pc = "awaitPoolReady"
    /\ poolReadyFulfilled
    /\ calls' = [calls EXCEPT ![c] =
          IF mode = "demo" THEN Returned(@, <<>>)
          ELSE IF pool # "Pool" THEN Finally(Touch(@), "error", <<>>, "TypeError")
          ELSE IF SelectedMode = "mssql" THEN [Send(Touch(@)) EXCEPT !.pc = "awaitExec"]
          ELSE [Touch(@) EXCEPT !.pc = "awaitConn"]]
    /\ UNCHANGED <<env, mode, pool, startup, openConns>>
    /\ UNCHANGED transVars

\* oracle: pool.getConnection() fulfils; conn.execute(oraText, binds) is sent
GetConnResolve(c) ==
    /\ calls[c].pc = "awaitConn"
    /\ openConns < poolMax
    /\ openConns' = openConns + 1
    /\ calls' = [calls EXCEPT ![c] = [Send(@) EXCEPT !.conn = "open", !.pc = "awaitExec"]]
    /\ UNCHANGED <<env, mode, pool, startup>>
    /\ UNCHANGED transVars

\* oracle: pool.getConnection() rejects; conn stays undefined
GetConnReject(c) ==
    /\ calls[c].pc = "awaitConn"
    /\ calls' = [calls EXCEPT ![c] = Finally(@, "error", <<>>, "DriverError")]
    /\ UNCHANGED <<env, mode, pool, startup, openConns>>
    /\ UNCHANGED transVars

\* the statement fulfils with a record set
ExecResolve(c) ==
    /\ calls[c].pc = "awaitExec"
    /\ \E rs \in DriverRows :
          calls' = [calls EXCEPT ![c] =
             CASE SelectedMode = "mssql" ->
                    IF lowercaseKeys(rs).threw THEN Threw(@, "TypeError")
                    ELSE Returned(@, lowercaseKeys(rs).rows)
               [] SelectedMode = "oracle" ->
                    IF lowercaseKeys(rs).threw THEN Finally(@, "error", <<>>, "TypeError")
                    ELSE Finally(@, "rows", lowercaseKeys(rs).rows, "")
               [] OTHER -> Returned(@, rs)]
    /\ UNCHANGED <<env, mode, pool, startup, openConns>>
    /\ UNCHANGED transVars

\* mutant: a rejected statement is sent once more before the call gives up
ExecReject_retryOnce(c) ==
    /\ calls[c].pc = "awaitExec"
    /\ calls' = [calls EXCEPT ![c] =
          IF @.sent < 2 THEN Send(@)
          ELSE IF SelectedMode = "oracle"
          THEN Finally([@ EXCEPT !.drvErr = "DriverError"], "error", <<>>, "DriverError")
          ELSE Threw([@ EXCEPT !.drvErr = "DriverError"], "DriverError")]
    /\ UNCHANGED <<env, mode, pool, startup, openConns>>
    /\ UNCHANGED transVars

\* the statement rejects
ExecReject(c) ==
    /\ calls[c].pc = "awaitExec"
    /\ calls' = [calls EXCEPT ![c] =
          IF SelectedMode = "oracle"
          THEN Finally([@ EXCEPT !.drvErr = "DriverError"], "error", <<>>, "DriverError")
          ELSE Threw([@ EXCEPT !.drvErr = "DriverError"], "DriverError")]
    /\ UNCHANGED <<env, mode, pool, startup, openConns>>
    /\ UNCHANGED transVars

\* oracle: conn.close() hands the connection back; the outcome of the try block follows
CloseResolve(c) ==
    /\ calls[c].pc = "awaitClose"
    /\ openConns' = openConns - 1
    /\ calls' = [calls EXCEPT ![c].conn = "closed", ![c].pc = "settled",
                              ![c].res = calls[c].pendRes, ![c].rows = calls[c].pendRows,
                              ![c].err = calls[c].pendErr]
    /\ UNCHANGED <<env, mode, pool, startup>>
    /\ UNCHANGED transVars

\* ---- list routes: router.get('/') of water-system.js and facility.js ----

Respond(call, status) == [call EXCEPT !.pc = "responded", !.status = status]

\* the handler up to its first await
ListCall(c) ==
    /\ calls[c].pc = "idle"
    /\ calls' = [calls EXCEPT ![c] =
          IF mode = "demo"
          THEN Respond([NoCall EXCEPT !.kind = "list", !.seenMode = mode], 200)
          ELSE QueryEnter([NoCall EXCEPT !.kind = "list", !.phase = "count",
                                         !.seenMode = mode,
                                         !.raced = ~poolReadyFulfilled])]
    /\ UNCHANGED <<env, mode, pool, startup, openConns>>
    /\ UNCHANGED transVars

\* the handler after an awaited db.query settled
ListContinue(c) ==
    /\ calls[c].kind = "list"
    /\ calls[c].pc = "settled"
    /\ calls' = [calls EXCEPT ![c] =
          IF @.res = "error" THEN Respond(@, 500)
          ELSE IF @.phase = "count"
          THEN \* totalCount = parseInt(countResult[0].total)
               IF Len(@.rows) = 0 \/ @.rows[1].null THEN Respond(@, 500)
               ELSE QueryEnter([@ EXCEPT !.phase = "rows", !.res = "none",
                                         !.rows = <<>>, !.conn = "none",
                                         !.sent = 0, !.drvErr = ""])
          ELSE \* rows.map(mapRow)
               IF \E i \in 1..Len(@.rows) : @.rows[i].null THEN Respond(@, 500)
               ELSE Respond(@, 200)]
    /\ UNCHANGED <<env, mode, pool, startup, openConns>>
    /\ UNCHANGED transVars

\* GET /health: res.json({ status: 'ok', datasource: db.mode })
HealthCall(c) ==
    /\ calls[c].pc = "idle"
    /\ calls' = [calls EXCEPT ![c] =
          Respond([NoCall EXCEPT !.kind = "health", !.seenMode = mode,
                                 !.datasource = mode], 200)]
    /\ UNCHANGED <<env, mode, pool, startup, openConns>>
    /\ UNCHANGED transVars

\* the caller took the result of db.query / the response was sent
Return(c) ==
    /\ \/ calls[c].kind = "query" /\ calls[c].pc = "settled"
       \/ calls[c].pc = "responded"
    /\ calls' = [calls EXCEPT ![c] = NoCall]
    /\ UNCHANGED <<env, mode, pool, startup, openConns>>
    /\ UNCHANGED transVars

\* the state after db.js was loaded in an environment of E
LifeInit(E) ==
    /\ env \in E
    /\ mode = SelectedMode
    /\ pool = CASE SelectedMode = "mssql" -> "undefined"
                [] SelectedMode = "postgresql" -> "Pool"
                [] OTHER -> "null"
    /\ startup = CASE SelectedMode = "demo" -> "none"
                   [] SelectedMode = "postgresql" -> "probing"
                   [] OTHER -> "connecting"
    /\ calls = [c \in Callers |-> NoCall]
    /\ openConns = 0

\* no request has reached a route
NoRoutes ==
    /\ req = NoReq
    /\ sqlCalls = NoSql
    /\ demoFile = NoFiles
    /\ demoData = NoCaches
    /\ resp = NoRes
    /\ dbResult = NoDbResult

NoTranslation ==
    /\ tShape = NoShape
    /\ tText = ""
    /\ tParams = <<>>
    /\ tOut = NoOut
    /\ tFirst = NoFirst
    /\ rIn = <<>>
    /\ rOut = NoRows
    /\ reqQuery = NoQuery
    /\ page = NoPage
    /\ NoRoutes

Init == LifeInit(StartEnvs) /\ NoTranslation

Next ==
    \/ ConnectResolve
    \/ ConnectReject
    \/ ThenHandler
    \/ PoolReadySettle
    \/ CatchHandler
    \/ ProbeResolve
    \/ ProbeReject
    \/ ProbeCatch
    \/ \E c \in Callers : QueryCall(c)
    \/ \E c \in Callers : AfterPoolReady(c)
    \/ \E c \in Callers : GetConnResolve(c)
    \/ \E c \in Callers : GetConnReject(c)
    \/ \E c \in Callers : ExecResolve(c)
    \/ \E c \in Callers : ExecReject(c)
    \/ \E c \in Callers : CloseResolve(c)
    \/ \E c \in Callers : ListCall(c)
    \/ \E c \in Callers : ListContinue(c)
    \/ \E c \in Callers : HealthCall(c)
    \/ \E c \in Callers : Return(c)

Spec == Init /\ [][Next]_vars

\* SpecM: module load in every environment, and the startup promise chain
InitM == LifeInit(EnvValues) /\ NoTranslation

NextM ==
    \/ ConnectResolve
    \/ ConnectReject
    \/ ThenHandler
    \/ PoolReadySettle
    \/ CatchHandler
    \/ ProbeResolve
    \/ ProbeReject
    \/ ProbeCatch

SpecM == InitM /\ [][NextM]_vars

\* SpecT: a process started with DEMO_MODE=true, as the test suites start it,
\* in which the translators are applied to one canonical query
InitT ==
    /\ LifeInit({[DEMO_MODE |-> EnvVal("true"), MSSQL_SERVER |-> EnvUnset,
                  ORACLE_USER |-> EnvUnset]})
    /\ tShape \in Shapes
    /\ tText = BuildText(tShape)
    /\ tParams = BuildParams(tShape)
    /\ tOut = NoOut
    /\ tFirst = NoFirst
    /\ rIn = <<>>
    /\ rOut = NoRows
    /\ reqQuery = NoQuery
    /\ page = NoPage
    /\ NoRoutes

NextT ==
    \/ TranslateOracle
    \/ TranslateMssql
    \/ QueryPostgresql

SpecT == InitT /\ [][NextT]_vars

\* SpecL: lowercaseKeys applied to a row sequence, and to its own result
InitL ==
    /\ LifeInit({[DEMO_MODE |-> EnvVal("true"), MSSQL_SERVER |-> EnvUnset,
                  ORACLE_USER |-> EnvUnset]})
    /\ tShape = NoShape
    /\ tText = ""
    /\ tParams = <<>>
    /\ tOut = NoOut
    /\ tFirst = NoFirst
    /\ rIn \in RowInputs
    /\ rOut = NoRows
    /\ reqQuery = NoQuery
    /\ page = NoPage
    /\ NoRoutes

NextL ==
    \/ NormalizeRows
    \/ NormalizeAgain

SpecL == InitL /\ [][NextL]_vars

\* SpecK: lowercaseKeys applied to rows whose keys may differ in case only
InitK ==
    /\ LifeInit({[DEMO_MODE |-> EnvVal("true"), MSSQL_SERVER |-> EnvUnset,
                  ORACLE_USER |-> EnvUnset]})
    /\ tShape = NoShape
    /\ tText = ""
    /\ tParams = <<>>
    /\ tOut = NoOut
    /\ tFirst = NoFirst
    /\ rIn \in AnyRowInputs
    /\ rOut = NoRows
    /\ reqQuery = NoQuery
    /\ page = NoPage
    /\ NoRoutes

SpecK == InitK /\ [][NextL]_vars

\* SpecD: a process in demo mode that serves list and get-by-ID requests of
\* both routes, one after the other
InitD ==
    /\ LifeInit({[DEMO_MODE |-> EnvVal("true"), MSSQL_SERVER |-> EnvUnset,
                  ORACLE_USER |-> EnvUnset]})
    /\ tShape = NoShape
    /\ tText = ""
    /\ tParams = <<>>
    /\ tOut = NoOut
    /\ tFirst = NoFirst
    /\ rIn = <<>>
    /\ rOut = NoRows
    /\ reqQuery = NoQuery
    /\ page = NoPage
    /\ req = NoReq
    /\ sqlCalls = NoSql
    /\ demoFile \in DemoFiles
    /\ demoData = NoCaches
    /\ resp = NoRes
    /\ dbResult = NoDbResult

NextD ==
    \/ WaterSystemListDemo
    \/ FacilityListDemo
    \/ WaterSystemGetDemo
    \/ FacilityGetDemo

SpecD == InitD /\ [][NextD]_vars

\* SpecF: one list request to a route in demo mode, over the filter, sort and
\* page parameters
InitF ==
    /\ LifeInit({[DEMO_MODE |-> EnvVal("true"), MSSQL_SERVER |-> EnvUnset,
                  ORACLE_USER |-> EnvUnset]})
    /\ tShape = NoShape
    /\ tText = ""
    /\ tParams = <<>>
    /\ tOut = NoOut
    /\ tFirst = NoFirst
    /\ rIn = <<>>
    /\ rOut = NoRows
    /\ reqQuery = NoQuery
    /\ page = NoPage
    /\ \E route \in Routes :
           /\ demoFile \in {[r \in Routes |-> IF r = route THEN arr ELSE <<>>] :
                               arr \in DemoArrays(route)}
           /\ req \in {[route |-> route, id |-> "", query |-> q] : q \in DemoQueries(route)}
    /\ sqlCalls = NoSql
    /\ demoData = NoCaches
    /\ resp = NoRes
    /\ dbResult = NoDbResult

NextF ==
    \/ WaterSystemListDemoOnce
    \/ FacilityListDemoOnce

SpecF == InitF /\ [][NextF]_vars

\* SpecG: a process in demo mode or with the postgresql backend that serves
\* get-by-ID requests of both routes
InitG ==
    /\ LifeInit({[DEMO_MODE |-> EnvVal("true"), MSSQL_SERVER |-> EnvUnset,
                  ORACLE_USER |-> EnvUnset],
                 [DEMO_MODE |-> EnvUnset, MSSQL_SERVER |-> EnvUnset,
                  ORACLE_USER |-> EnvUnset]})
    /\ tShape = NoShape
    /\ tText = ""
    /\ tParams = <<>>
    /\ tOut = NoOut
    /\ tFirst = NoFirst
    /\ rIn = <<>>
    /\ rOut = NoRows
    /\ reqQuery = NoQuery
    /\ page = NoPage
    /\ req = NoReq
    /\ sqlCalls = NoSql
    /\ demoFile \in IF mode = "demo" THEN DemoFiles ELSE {NoFiles}
    /\ demoData = NoCaches
    /\ resp = NoRes
    /\ dbResult = NoDbResult

NextG ==
    \/ WaterSystemGetDemo
    \/ FacilityGetDemo
    \/ WaterSystemGetSql
    \/ FacilityGetSql

SpecG == InitG /\ [][NextG]_vars

\* SpecR: one list request in a process that selected postgresql, for which
\* the handler builds the count query and the row query
InitR ==
    /\ LifeInit({[DEMO_MODE |-> EnvUnset, MSSQL_SERVER |-> EnvUnset,
                  ORACLE_USER |-> EnvUnset]})
    /\ tShape = NoShape
    /\ tText = ""
    /\ tParams = <<>>
    /\ tOut = NoOut
    /\ tFirst = NoFirst
    /\ rIn = <<>>
    /\ rOut = NoRows
    /\ reqQuery = NoQuery
    /\ page = NoPage
    /\ req \in SqlRequests
    /\ sqlCalls = NoSql
    /\ demoFile = NoFiles
    /\ demoData = NoCaches
    /\ resp = NoRes
    /\ dbResult = NoDbResult

NextR ==
    \/ WaterSystemListSql
    \/ FacilityListSql

SpecR == InitR /\ [][NextR]_vars

\* SpecP: the page parameters of one list request, for every pair of values of
\* pageNumber and pageSize in the query string
InitP ==
    /\ LifeInit({[DEMO_MODE |-> EnvVal("true"), MSSQL_SERVER |-> EnvUnset,
                  ORACLE_USER |-> EnvUnset]})
    /\ tShape = NoShape
    /\ tText = ""
    /\ tParams = <<>>
    /\ tOut = NoOut
    /\ tFirst = NoFirst
    /\ rIn = <<>>
    /\ rOut = NoRows
    /\ reqQuery \in [pageNumber : PageParams, pageSize : PageParams]
    /\ page = NoPage
    /\ NoRoutes

NextP ==
    \/ WaterSystemPage
    \/ FacilityPage

SpecP == InitP /\ [][NextP]_vars


(***************************************************************************)
(* Properties of the mode lifecycle and of the query entry points (Spec)   *)
(***************************************************************************)

C1_ModeInv ==
    /\ mode \in {SelectedMode, "demo"}
    /\ (SelectedMode \in {"mssql", "oracle"} /\ pool = "Pool") => mode = SelectedMode

C1_ModeStep ==
    mode' # mode =>
        /\ mode = SelectedMode
        /\ mode # "demo"
        /\ mode' = "demo"
        /\ SelectedMode \in {"mssql", "oracle"} =>
              startup = "connectFailed" /\ pool # "Pool"
        /\ SelectedMode = "postgresql" => startup = "probeFailed"

\* C1: mode only ever holds the mode selected at startup or 'demo'; it
\* changes at most once, from a non-demo mode to 'demo', and then stays
\* 'demo'; in mssql and oracle modes only the failed startup connection
\* attempt demotes (an established pool is never demoted), in postgresql
\* mode only the failed liveness probe does.
C1_ModeDemotesOnce == [](C1_ModeInv) /\ [][C1_ModeStep]_vars

\* C1 witness: a postgresql process demoted by its probe while the pool exists
C1_Witness == SelectedMode = "postgresql" /\ mode = "demo" /\ pool = "Pool"

\* C2: in mssql and oracle modes a query call dereferences pool only after
\* poolReady is fulfilled, and then pool is the established pool and mode
\* is not 'demo'; a call that got past the await either used the
\* established pool or saw the demo fallback.
C2_NoUnsetPool ==
    SelectedMode \in {"mssql", "oracle"} =>
        \A c \in Callers :
            /\ calls[c].touchPool # "none" =>
                  /\ calls[c].touchPool = "Pool"
                  /\ calls[c].touchMode # "demo"
                  /\ ~calls[c].touchEarly
            /\ calls[c].pc \in {"awaitExec", "awaitConn", "awaitClose", "settled"} =>
                  \/ calls[c].touchPool = "Pool"
                  \/ calls[c].touchPool = "none" /\ mode = "demo"

\* C2 witness: two calls raced the connection attempt and both used the
\* established pool
C2_Witness ==
    /\ SelectedMode = "mssql"
    /\ \A c \in Callers : calls[c].raced /\ calls[c].touchPool = "Pool"

\* the startup connection attempt of mssql / oracle mode has failed
ConnectionFailed ==
    SelectedMode \in {"mssql", "oracle"} /\ startup \in {"connectFailed", "fallback"}

\* C3: when the mssql / oracle startup connection attempt fails, every
\* query call, made before or after the failure resolved, returns an empty
\* sequence and does not throw.
C3_FailedStartupGivesEmpty ==
    ConnectionFailed =>
        \A c \in Callers :
            (calls[c].kind = "query" /\ calls[c].pc # "awaitPoolReady") =>
                /\ calls[c].pc = "settled"
                /\ calls[c].res = "rows"
                /\ calls[c].rows = <<>>
                /\ calls[c].touchPool = "none"

\* C3 witness: one call waited for the failing attempt, one was made after
\* it; both returned the empty sequence
C3_Witness ==
    /\ ConnectionFailed
    /\ \E c, d \in Callers :
          /\ calls[c].kind = "query" /\ calls[c].raced /\ calls[c].pc = "settled"
          /\ calls[d].kind = "query" /\ ~calls[d].raced /\ calls[d].pc = "settled"

\* C4: in postgresql mode, a query call made once the probe has demoted
\* mode to 'demo' returns an empty result set and neither executes against
\* the pool nor raises an error.
C4_DemotedPostgresGivesEmpty ==
    SelectedMode = "postgresql" =>
        \A c \in Callers :
            (calls[c].kind = "query" /\ calls[c].seenMode = "demo") =>
                /\ calls[c].touchPool = "none"
                /\ calls[c].pc = "settled" => calls[c].res = "rows" /\ calls[c].rows = <<>>

\* C5: a list request never answers 500 because of a connection-lifecycle
\* failure, also when it read a non-demo mode at its start and its
\* db.query calls returned the empty sequence after the demotion.
C5_LifecycleFailureNever500 ==
    ConnectionFailed =>
        \A c \in Callers :
            (calls[c].kind = "list" /\ calls[c].pc = "responded") => calls[c].status = 200

PrecedenceMode ==
    IF env.DEMO_MODE = EnvVal("true") THEN "demo"
    ELSE IF env.MSSQL_SERVER.set /\ env.MSSQL_SERVER.val # "" THEN "mssql"
    ELSE IF env.ORACLE_USER.set /\ env.ORACLE_USER.val # "" THEN "oracle"
    ELSE "postgresql"

\* C7: the startup mode is the first match of: DEMO_MODE equal to 'true'
\* -> demo; MSSQL_SERVER set (to a non-empty value) -> mssql; ORACLE_USER
\* set (to a non-empty value) -> oracle; otherwise postgresql.
C7_ModePrecedence ==
    startup \in {"none", "connecting", "probing"} =>
        /\ mode = PrecedenceMode
        /\ mode \in {"demo", "mssql", "oracle", "postgresql"}

\* C7 witness: DEMO_MODE is set but not 'true' and both MSSQL_SERVER and
\* ORACLE_USER are set: mssql wins
C7_Witness ==
    /\ env.DEMO_MODE = EnvVal("TRUE")
    /\ env.MSSQL_SERVER = EnvVal("sqlhost") /\ env.ORACLE_USER = EnvVal("sdwis")
    /\ startup = "connecting" /\ mode = "mssql"


\* the driver has rejected the statement of call c
DriverFailed(c) == calls[c].drvErr # ""

C17_ErrorInv ==
    \A c \in Callers :
        /\ calls[c].sent <= 1
        /\ DriverFailed(c) =>
              /\ SelectedMode # "demo"
              /\ calls[c].sent = 1
              /\ calls[c].pc \in {"awaitClose", "settled", "responded"}
              /\ calls[c].pc = "awaitClose" =>
                    calls[c].pendRes = "error" /\ calls[c].pendErr = calls[c].drvErr
              /\ calls[c].pc = "settled" =>
                    calls[c].res = "error" /\ calls[c].err = calls[c].drvErr

C17_ErrorStep ==
    (\E c \in Callers : DriverFailed(c)' /\ ~DriverFailed(c)) => mode' = mode

FilterPositions ==
    OtherPositions(1, tShape.n, tShape.limitPos, tShape.offsetPos)

\* the filter conditions as the Oracle dialect spells them
OracleCondText(kind, k) ==
    CASE kind = "like" -> "TRIM(ws.number0) LIKE :" \o ToString(k)
      [] kind = "ilike" -> "UPPER(ws.name) LIKE UPPER(:" \o ToString(k) \o ")"
      [] OTHER -> "ws.d_population_count >= :" \o ToString(k)

RECURSIVE OracleConds(_, _, _)
OracleConds(kinds, positions, i) ==
    IF i > Len(kinds) THEN ""
    ELSE " AND " \o OracleCondText(kinds[i], positions[i])
         \o OracleConds(kinds, positions, i + 1)

\* the canonical row query without its pagination clause, in the Oracle dialect
OracleInner ==
    "SELECT * FROM tinwsys ws WHERE ws.tinwsys_st_code = 'MS'"
    \o OracleConds(tShape.kinds, FilterPositions, 1)
    \o "\n         ORDER BY ws.name ASC"

PaginationLast == {tShape.limitPos, tShape.offsetPos} = {tShape.n - 1, tShape.n}

\* C8: translateToOracle on a canonical query whose LIMIT/OFFSET placeholders
\* are the last two of N binds leaves the first N-2 binds in order, keys the
\* bind map "1".."N-2" with them, leaves no LIMIT/OFFSET in the text, and
\* wraps the rest of the query between ROWNUM <= O+L and rn > O
C8_OracleRownumWrap ==
    (tOut.dialect = "oracle" /\ tShape.paged /\ PaginationLast) =>
        LET k == tShape.n - 2
        IN  /\ Len(tOut.filteredParams) = k
            /\ \A i \in 1..k : tOut.filteredParams[i] = tParams[i]
            /\ DOMAIN tOut.binds = {ToString(i) : i \in 1..k}
            /\ \A i \in 1..k : tOut.binds[ToString(i)] = tParams[i]
            /\ ~ContainsCI(tOut.sql, "LIMIT")
            /\ ~ContainsCI(tOut.sql, "OFFSET")
            /\ tOut.sql = "SELECT * FROM (\n      SELECT a.*, ROWNUM rn FROM ("
                          \o OracleInner
                          \o ") a\n      WHERE ROWNUM <= "
                          \o ToString(tShape.offset + tShape.limit)
                          \o "\n    ) WHERE rn > " \o ToString(tShape.offset)

\* a second page of a filtered query went through translateToOracle
C8_Witness ==
    /\ tOut.dialect = "oracle" /\ tShape.paged /\ PaginationLast
    /\ tShape.n = 4 /\ tShape.offset = 10 /\ tShape.limit = 5
    /\ tShape.kinds[1] = "ilike"
    /\ Contains(tOut.sql, "ROWNUM <= 15")

\* C9: translateToMssql on a canonical query with LIMIT $i OFFSET $j removes
\* the clause, ends the text with OFFSET <bind j> ROWS FETCH NEXT <bind i>
\* ROWS ONLY, and removes binds i and j keeping the others in order
C9_MssqlOffsetFetch ==
    (tOut.dialect = "mssql" /\ tShape.paged) =>
        LET suffix == " OFFSET " \o ToString(tParams[tShape.offsetPos].n)
                      \o " ROWS FETCH NEXT " \o ToString(tParams[tShape.limitPos].n)
                      \o " ROWS ONLY"
            h == Len(tOut.sql) - Len(suffix)
        IN  /\ h > 0
            /\ SubSeq(tOut.sql, h + 1, Len(tOut.sql)) = suffix
            /\ ~ContainsCI(SubSeq(tOut.sql, 1, h), "LIMIT")
            /\ ~ContainsCI(SubSeq(tOut.sql, 1, h), "OFFSET")
            /\ Len(tOut.filteredParams) = tShape.n - 2
            /\ \A i \in 1..(tShape.n - 2) :
                   tOut.filteredParams[i] = tParams[FilterPositions[i]]

\* a second page went through translateToMssql, pagination binds not last
C9_Witness ==
    /\ tOut.dialect = "mssql" /\ tShape.paged
    /\ tShape.limitPos = 1 /\ tShape.offsetPos = 2 /\ tShape.n = 3
    /\ tShape.offset = 10 /\ tShape.limit = 5
    /\ tOut.filteredParams = <<tParams[3]>>

\* the numbers of the placeholders left in a translated text, in text order
PlaceholderAt(s, q, marker) ==
    MatchCI(s, q, marker) /\ SpanDigits(s, q + Len(marker)) > q + Len(marker)

RECURSIVE PlaceholderNumbers(_, _, _)
PlaceholderNumbers(s, p, marker) ==
    Apply(LAMBDA q :
              IF q > Len(s) THEN <<>>
              ELSE Apply(LAMBDA e : <<ParseInt(SubSeq(s, q + Len(marker), e - 1))>>
                                    \o PlaceholderNumbers(s, e, marker),
                         SpanDigits(s, q + Len(marker))),
          First(p, Len(s) + 1, LAMBDA i : PlaceholderAt(s, i, marker)))

\* the name under which the driver looks up placeholder number k
BindKey(k) ==
    IF tOut.dialect = "oracle" THEN ToString(k) ELSE "p" \o ToString(k)

\* C10: wherever the two pagination placeholders sit in the bind list, every
\* placeholder left in the translated text is bound at execution (Oracle bind
\* map, SQL Server inputs) to the value it had in the canonical query
C10_RebindLossless ==
    (tOut.dialect # "none" /\ tShape.paged) =>
        \E left \in {PlaceholderNumbers(tOut.sql, 1,
                         IF tOut.dialect = "oracle" THEN ":" ELSE "@P")} :
            /\ Len(left) = Len(FilterPositions)
            /\ \A i \in 1..Len(left) :
                   /\ BindKey(left[i]) \in DOMAIN tOut.binds
                   /\ tOut.binds[BindKey(left[i])] = tParams[FilterPositions[i]]

\* C10 where the routes put the pagination binds: last
C10_RebindLosslessWhenLast ==
    PaginationLast => C10_RebindLossless

\* the placeholders left in the translated text, as a sequence in text order
PlaceholdersLeft ==
    PlaceholderNumbers(tOut.sql, 1, IF tOut.dialect = "oracle" THEN ":" ELSE "@P")

RECURSIVE SeqRange(_, _)
SeqRange(seq, i) == IF i > Len(seq) THEN {} ELSE {seq[i]} \cup SeqRange(seq, i + 1)

\* C11: for every canonical query and both dialects, the translated output
\* carries as many bind values (filtered list, Oracle bind map, SQL Server
\* inputs) as there are distinct placeholders left in the translated text
C11_BindCountMatchesPlaceholders ==
    tOut.dialect # "none" =>
        \E left \in {PlaceholdersLeft} :
            /\ Len(tOut.filteredParams) = Cardinality(SeqRange(left, 1))
            /\ Cardinality(DOMAIN tOut.binds) = Cardinality(SeqRange(left, 1))
            /\ Len(left) = Cardinality(SeqRange(left, 1))

\* a paginated query with two filter binds, pagination binds in between
C11_Witness ==
    /\ tOut.dialect = "mssql" /\ tShape.paged /\ tShape.n = 4
    /\ tShape.limitPos = 2 /\ tShape.offsetPos = 3
    /\ Len(tOut.filteredParams) = 2
    /\ SeqRange(PlaceholdersLeft, 1) = {1, 4}

\* the filter conditions without ILIKE, with the dialect's placeholder prefix
PlainCondText(kind, k, prefix) ==
    IF kind = "like" THEN "TRIM(ws.number0) LIKE " \o prefix \o ToString(k)
    ELSE "ws.d_population_count >= " \o prefix \o ToString(k)

RECURSIVE PlainConds(_, _, _)
PlainConds(kinds, i, prefix) ==
    IF i > Len(kinds) THEN ""
    ELSE " AND " \o PlainCondText(kinds[i], i, prefix) \o PlainConds(kinds, i + 1, prefix)

\* the canonical query of tShape behind the given select list, with only
\* the placeholder prefix changed
PlainText(head, prefix) ==
    head \o "FROM tinwsys ws WHERE ws.tinwsys_st_code = 'MS'"
    \o PlainConds(tShape.kinds, 1, prefix)

CanonicalHead == IF tShape.count THEN "SELECT COUNT(*) as total " ELSE "SELECT * "

DialectPrefix == IF tOut.dialect = "oracle" THEN ":" ELSE "@p"

\* a translated canonical query without pagination clause and without ILIKE
PlainCase ==
    /\ tOut.dialect # "none"
    /\ ~tShape.paged
    /\ \A i \in 1..Len(tShape.kinds) : tShape.kinds[i] # "ilike"

\* C12 as stated: on a canonical query without pagination clause and
\* without ILIKE, both translators change the placeholder syntax and no
\* other character of the text, and return the bind list as it was
C12_OnlyPlaceholderSyntax ==
    PlainCase =>
        /\ tOut.sql = PlainText(CanonicalHead, DialectPrefix)
        /\ tOut.filteredParams = tParams

\* C12 amended: as above, except that translateToOracle also rewrites the
\* count alias 'COUNT(*) as total' to 'COUNT(*) total'
C12_OnlyPlaceholderSyntaxAndCountAlias ==
    PlainCase =>
        /\ tOut.sql = PlainText(IF tShape.count /\ tOut.dialect = "oracle"
                                THEN "SELECT COUNT(*) total " ELSE CanonicalHead,
                                DialectPrefix)
        /\ tOut.filteredParams = tParams

\* the count query over two filter binds went through translateToOracle
C12_Witness ==
    /\ PlainCase /\ tOut.dialect = "oracle" /\ tShape.count /\ tShape.n = 2
    /\ Contains(tOut.sql, "COUNT(*) total FROM")
    /\ Contains(tOut.sql, ">= :2")

\* the positions at which w occurs in s
Occurrences(s, w) ==
    {p \in 1..(Len(s) - Len(w) + 1) : SubSeq(s, p, p + Len(w) - 1) = w}

\* C13: every canonical placeholder $n comes out as :n (Oracle) or @pn
\* (SQL Server) with the same index n (the two of the pagination clause are
\* consumed with it), no $n token is left in the output, and a digit that
\* does not follow the '$' prefix (the 0 of ws.number0) is left as it was
C13_PlaceholderRewrite ==
    tOut.dialect # "none" =>
        /\ PlaceholdersLeft = FilterPositions
        /\ \A p \in 1..Len(tOut.sql) :
               Ch(tOut.sql, p) = "$" => ~IsDigit(Ch(tOut.sql, p + 1))
        /\ Cardinality(Occurrences(tOut.sql, "ws.number0)"))
               = Cardinality(Occurrences(tText, "ws.number0)"))
        /\ \A p \in Occurrences(tOut.sql, DialectPrefix) :
               p \notin {q + 9 : q \in Occurrences(tOut.sql, "ws.number")}

\* two filters on ws.number0 were translated with their placeholders
C13_Witness ==
    /\ tOut.dialect = "mssql" /\ tShape.n = 4 /\ tShape.paged
    /\ tShape.kinds = <<"like", "like">>
    /\ PlaceholdersLeft = <<1, 2>>
    /\ Cardinality(Occurrences(tOut.sql, "ws.number0) LIKE @p")) = 2

\* the filter conditions as the SQL Server dialect spells them
MssqlCondText(kind, k) ==
    CASE kind = "like" -> "TRIM(ws.number0) LIKE @p" \o ToString(k)
      [] kind = "ilike" -> "ws.name LIKE @p" \o ToString(k)
      [] OTHER -> "ws.d_population_count >= @p" \o ToString(k)

RECURSIVE MssqlConds(_, _, _)
MssqlConds(kinds, positions, i) ==
    IF i > Len(kinds) THEN ""
    ELSE " AND " \o MssqlCondText(kinds[i], positions[i])
         \o MssqlConds(kinds, positions, i + 1)

IlikeFilters == {i \in 1..Len(tShape.kinds) : tShape.kinds[i] = "ilike"}

\* C14: each of the k ILIKE comparisons of a canonical query comes out as
\* one UPPER(left) LIKE UPPER(right) (Oracle) or left LIKE right (SQL
\* Server) made of its own two operands (the WHERE clause is the canonical
\* one with each comparison rewritten in place), no ILIKE is left, and the
\* conditions around and between them are as they were
C14_IlikeEachOccurrence ==
    tOut.dialect # "none" =>
        /\ ~ContainsCI(tOut.sql, "ILIKE")
        /\ tOut.dialect = "oracle" =>
               Cardinality(Occurrences(tOut.sql, "UPPER(ws.name) LIKE UPPER("))
                   = Cardinality(IlikeFilters)
        /\ tOut.dialect = "mssql" =>
               Cardinality(Occurrences(tOut.sql, "ws.name LIKE @p"))
                   = Cardinality(IlikeFilters)
        /\ Cardinality(Occurrences(tOut.sql,
               "WHERE ws.tinwsys_st_code = 'MS'"
               \o (IF tOut.dialect = "oracle"
                   THEN OracleConds(tShape.kinds, FilterPositions, 1)
                   ELSE MssqlConds(tShape.kinds, FilterPositions, 1)))) = 1

\* a query with two ILIKE comparisons went through translateToOracle
C14_Witness ==
    /\ tOut.dialect = "oracle"
    /\ Cardinality(IlikeFilters) = 2
    /\ Cardinality(Occurrences(tOut.sql, "UPPER(ws.name) LIKE UPPER(:")) = 2

IsLowerKey(k) == \A p \in 1..Len(k) : Ch(k, p) \notin UpperChars

\* out is the key k with its upper-case letters lowered
LoweredFrom(out, k) ==
    /\ Len(out) = Len(k)
    /\ IsLowerKey(out)
    /\ \A p \in 1..Len(k) : ToUpperCh(Ch(out, p)) = ToUpperCh(Ch(k, p))

\* C16: lowercaseKeys returns as many rows in the same order, each with its
\* fields in the same order, every key lowered and every value the one the
\* input key had; rows whose keys are lower case already come back equal;
\* applying it to its own result changes nothing
C16_LowercaseKeysIdempotent ==
    /\ rOut.n >= 1 =>
          /\ Len(rOut.once) = Len(rIn)
          /\ \A i \in 1..Len(rIn) :
                /\ ~rOut.once[i].null
                /\ Len(rOut.once[i].entries) = Len(rIn[i].entries)
                /\ \A j \in 1..Len(rIn[i].entries) :
                      /\ LoweredFrom(rOut.once[i].entries[j][1], rIn[i].entries[j][1])
                      /\ rOut.once[i].entries[j][2] = rIn[i].entries[j][2]
          /\ (\A i \in 1..Len(rIn) : \A j \in 1..Len(rIn[i].entries) :
                  IsLowerKey(rIn[i].entries[j][1])) => rOut.once = rIn
    /\ rOut.n = 2 => rOut.twice = rOut.once

\* two different rows with upper and mixed case keys were normalised twice
C16_Witness ==
    /\ rOut.n = 2 /\ Len(rIn) = 2 /\ rIn[1] # rIn[2]
    /\ rIn[1].entries = << <<"NAME", Str("NAME")>>, <<"Number0", Str("Number0")>> >>
    /\ rOut.twice[1].entries = << <<"name", Str("NAME")>>, <<"number0", Str("Number0")>> >>


\* C30: lowercaseKeys loses no field: for every input row, a row with two
\* keys that differ only in letter case included, the output row has as many
\* fields as the input row and carries every input value under the lower-case
\* form of its key
C30_NoFieldLost ==
    rOut.n >= 1 =>
        /\ Len(rOut.once) = Len(rIn)
        /\ \A i \in 1..Len(rIn) :
              /\ Len(rOut.once[i].entries) = Len(rIn[i].entries)
              /\ \A j \in 1..Len(rIn[i].entries) :
                    \E k \in 1..Len(rOut.once[i].entries) :
                        /\ LoweredFrom(rOut.once[i].entries[k][1], rIn[i].entries[j][1])
                        /\ rOut.once[i].entries[k][2] = rIn[i].entries[j][2]

\* a row with the keys NAME and name has been normalised
C30_Witness ==
    /\ rOut.n >= 1 /\ Len(rIn) = 1
    /\ rIn[1].entries = << <<"NAME", Str("NAME")>>, <<"name", Str("name")>> >>
    /\ rOut.once[1].entries = << <<"name", Str("name")>> >>

(***************************************************************************)
(* Claims about the rows query returns (Spec)                              *)
(***************************************************************************)
\* every key of every row that call c returned is lower case
ReturnedLowercase(c) ==
    \A i \in 1..Len(calls[c].rows) :
        \A j \in 1..Len(calls[c].rows[i].entries) :
            IsLowerKey(calls[c].rows[i].entries[j][1])

\* C18: in mssql, oracle and postgresql mode alike, whatever the casing of
\* the keys the driver hands back, every key of every row that query
\* returns is lower case
C18_RowsLowercase ==
    \A c \in Callers :
        (calls[c].pc = "settled" /\ calls[c].res = "rows") => ReturnedLowercase(c)

\* C18 for the two modes whose query normalises its rows
C18_RowsLowercaseNormalised ==
    SelectedMode \in {"mssql", "oracle"} => C18_RowsLowercase


(***************************************************************************)
(* Claims about forced demo mode (Spec)                                    *)
(***************************************************************************)
\* C19: with DEMO_MODE=true the mode is 'demo' from the first state on, no
\* pool is created and no connection attempt or probe is started, every
\* query call returns the empty sequence without a statement being sent,
\* and GET /health reports datasource 'demo'
C19_ForcedDemo ==
    env.DEMO_MODE = EnvVal("true") =>
        /\ mode = "demo"
        /\ pool = "null" /\ startup = "none" /\ openConns = 0
        /\ \A c \in Callers :
              /\ (calls[c].kind = "query" /\ calls[c].pc # "idle") =>
                    /\ calls[c].pc = "settled"
                    /\ calls[c].res = "rows" /\ calls[c].rows = <<>>
                    /\ calls[c].touchPool = "none" /\ calls[c].sent = 0
              /\ calls[c].kind = "health" =>
                    calls[c].status = 200 /\ calls[c].datasource = "demo"

\* in a forced demo process a query call has returned and GET /health has
\* been answered
C19_Witness ==
    /\ env.DEMO_MODE = EnvVal("true")
    /\ \E c, d \in Callers :
          /\ calls[c].kind = "query" /\ calls[c].pc = "settled"
          /\ calls[d].kind = "health" /\ calls[d].pc = "responded"

(***************************************************************************)
(* Further properties of the translators (SpecT)                           *)
(***************************************************************************)
\* C25: when the query text has no canonical pagination clause, the
\* pagination step of translateToOracle and of translateToMssql does nothing,
\* with or without ILIKE comparisons in the text: the bind list comes back
\* with the same values in the same order, Oracle binds every one of them
\* under its position, and the text gets no ROWNUM wrapper and no OFFSET/FETCH
\* suffix.
C25_NoPaginationNoOp ==
    (tOut.dialect # "none" /\ ~tShape.paged) =>
        /\ tOut.filteredParams = BuildParams(tShape)
        /\ Len(tOut.filteredParams) = tShape.n
        /\ ~ContainsCI(tOut.sql, "ROWNUM")
        /\ ~ContainsCI(tOut.sql, "OFFSET")
        /\ ~ContainsCI(tOut.sql, "FETCH")
        /\ ~ContainsCI(tOut.sql, "SELECT * FROM (")
        /\ tOut.dialect = "oracle" =>
               /\ DOMAIN tOut.binds = {ToString(i) : i \in 1..tShape.n}
               /\ \A i \in 1..tShape.n : tOut.binds[ToString(i)] = BuildParams(tShape)[i]

\* translateToOracle has translated a query without pagination clause that
\* has two binds, one of them for an ILIKE comparison
C25_Witness ==
    /\ tOut.dialect = "oracle" /\ ~tShape.paged /\ tShape.n = 2
    /\ \E i \in 1..2 : tShape.kinds[i] = "ilike"
    /\ tOut.filteredParams = tParams

\* the alias of the count query, as the routes write it
CountAlias == "COUNT(*) as total"

\* C26: translateToOracle rewrites every COUNT(*) as total to COUNT(*) total
\* and leaves no occurrence with the AS keyword; translateToMssql and the
\* postgresql query leave every occurrence where and as it was.
C26_CountAliasOracleOnly ==
    /\ (tOut.dialect = "oracle") =>
           /\ ~ContainsCI(tOut.sql, "AS TOTAL")
           /\ Cardinality(Occurrences(tOut.sql, "COUNT(*) total"))
                  = Cardinality(Occurrences(tText, CountAlias))
    /\ (tOut.dialect = "mssql") =>
           Occurrences(tOut.sql, CountAlias) = Occurrences(tText, CountAlias)
    /\ (tFirst.postgresql # NoOut) =>
           /\ tFirst.postgresql.sql = tText
           /\ Occurrences(tFirst.postgresql.sql, CountAlias) = Occurrences(tText, CountAlias)

\* the count query with one filter has gone through translateToOracle and
\* through the postgresql query
C26_Witness ==
    /\ tOut.dialect = "oracle" /\ tShape.count /\ tShape.n = 1
    /\ Occurrences(tText, CountAlias) # {}
    /\ tFirst.postgresql # NoOut

(***************************************************************************)
(* Properties of the page parameters (SpecP)                               *)
(***************************************************************************)
\* parameter values that are absent or do not parse to a non-zero number
NoNonZeroNumber == {Undefined, Str(""), Str("abc"), Str("0")}

\* the effective page size is an integer in 1..100, 10 by default, and is
\* reported as used
PageSizeClamped ==
    page.route # "none" =>
        /\ page.pageSize.t = "number"
        /\ page.pageSize.n \in 1..100
        /\ reqQuery.pageSize \in NoNonZeroNumber => page.pageSize = Num(10)
        /\ page.reported.pageSize = page.pageSize

\* the effective page number is an integer >= 0, 0 by default, and is reported
\* as used
PageNumberClamped ==
    page.route # "none" =>
        /\ page.pageNumber.t = "number"
        /\ page.pageNumber.n >= 0
        /\ reqQuery.pageNumber \in NoNonZeroNumber => page.pageNumber = Num(0)
        /\ page.reported.pageNumber = page.pageNumber

\* C20: for every value of the pageSize and pageNumber query parameters, the
\* page size a list route uses and reports is an integer in 1..100 (10 when the
\* parameter is absent or does not parse to a non-zero number) and the page
\* number is an integer >= 0 (0 by default).
C20_PageParamsClamped == PageSizeClamped /\ PageNumberClamped

\* a list route has computed its page parameters from a page number whose
\* digits denote more than the largest finite Number
C20_Witness ==
    /\ page.route # "none"
    /\ reqQuery.pageNumber = Str("99999")
    /\ page.pageNumber = PosInfinity

(***************************************************************************)
(* Properties of the queries the list routes build (SpecR)                 *)
(***************************************************************************)
\* the filters of the request's route whose parameter is supplied, in the
\* order of the handler's if blocks
Supplied ==
    SelectSeq(SqlRoute(req.route).filters, LAMBDA f : ~Falsy(Query(req.query, f.param)))

\* s ends with w
EndsWith(s, w) == Len(w) <= Len(s) /\ SubSeq(s, Len(s) - Len(w) + 1, Len(s)) = w

\* C27: for every subset of supplied filters, the count query and the row
\* query number their placeholders $1..$k in the order the k binds were
\* pushed, the row query ends with LIMIT $(k+1) OFFSET $(k+2), and its binds
\* are the k filter values followed by pageSize and pageNumber * pageSize, so
\* every placeholder has a bind at its position and the pagination binds are
\* the last two
C27_CanonicalQuery ==
    sqlCalls # NoSql =>
        \E sup \in {Supplied} : \E k \in {Len(sup)} :
            /\ PlaceholderNumbers(sqlCalls.count.text, 1, "$") = [i \in 1..k |-> i]
            /\ Len(sqlCalls.count.params) = k
            /\ \A i \in 1..k :
                   /\ sqlCalls.count.params[i]
                          = BindOf(sup[i].bind, Query(req.query, sup[i].param))
                   /\ Contains(sqlCalls.count.text, sup[i].cond \o "$" \o ToString(i))
                   /\ Contains(sqlCalls.rows.text, sup[i].cond \o "$" \o ToString(i))
            /\ PlaceholderNumbers(sqlCalls.rows.text, 1, "$") = [i \in 1..(k + 2) |-> i]
            /\ EndsWith(sqlCalls.rows.text,
                        "LIMIT $" \o ToString(k + 1) \o " OFFSET $" \o ToString(k + 2))
            /\ Len(sqlCalls.rows.params) = k + 2
            /\ SubSeq(sqlCalls.rows.params, 1, k) = sqlCalls.count.params
            /\ sqlCalls.rows.params[k + 1] = PageSizeOf(req.query)
            /\ sqlCalls.rows.params[k + 2]
                   = JsMul(PageNumberOf(req.query), PageSizeOf(req.query))

\* the facility handler has built its queries for a request with all eleven
\* filters
C27_Witness ==
    /\ req.route = "facility" /\ Len(Supplied) = 11
    /\ Len(sqlCalls.rows.params) = 13
    /\ EndsWith(sqlCalls.rows.text, "LIMIT $12 OFFSET $13")

\* the ORDER BY entries a route may write: a column of its SORT_COLUMNS table
\* and a direction
AllowedParts ==
    {SqlRoute(req.route).sortPrefix \o v.s \o " " \o d :
        v \in {SqlRoute(req.route).sortColumns[k] :
                  k \in DOMAIN SqlRoute(req.route).sortColumns} \ {Null},
        d \in {"ASC", "DESC"}}

\* the requested sort columns that the table of the route maps to a column
ValidColumns ==
    \E p \in {Split(Fmt(Query(req.query, "sortColumns")))} :
        \E i \in 1..Len(p) :
            /\ Trim(p[i]) \in DOMAIN SqlRoute(req.route).sortColumns
            /\ SqlRoute(req.route).sortColumns[Trim(p[i])] # Null

\* C28: the ORDER BY clause of the row query is made only of column
\* expressions of the SORT_COLUMNS table, each followed by ASC or DESC; unknown
\* entries and entries mapped to null are skipped, and with no valid entry the
\* clause is the default ordering by name
C28_OrderByFromTable ==
    sqlCalls # NoSql =>
        /\ Contains(sqlCalls.rows.text,
                    "\n         ORDER BY " \o sqlCalls.orderBy \o "\n         LIMIT $")
        /\ \E parts \in {Split(sqlCalls.orderBy)} :
               \A i \in 1..Len(parts) : Trim(parts[i]) \in AllowedParts
        /\ ~ValidColumns => sqlCalls.orderBy = SqlRoute(req.route).orderBy

\* the orderBy of a request whose sortColumns is a name every object inherits
C28_Witness ==
    /\ sqlCalls # NoSql
    /\ Query(req.query, "sortColumns") = Str("constructor")
    /\ sqlCalls.orderBy # SqlRoute(req.route).orderBy

(***************************************************************************)
(* Properties of the demo branch of the routes (SpecD, SpecF)              *)
(***************************************************************************)
\* the records of recs are records of file, in the order the file has them
InFileOrder(recs, file) ==
    /\ \A i \in 1..Len(recs) : \E k \in 1..Len(file) : file[k] = recs[i]
    /\ \A i, j \in 1..Len(recs) :
           i < j => \E k, l \in 1..Len(file) : k < l /\ file[k] = recs[i] /\ file[l] = recs[j]

\* the last request was a list request answered with 200
Listed == req.route \in Routes /\ req.id = "" /\ resp.status = 200

\* C29: in demo mode the cached demo array is never changed: after any
\* sequence of list and get-by-ID requests a loaded cache holds the records
\* of the file in the order of the file, and a list request without
\* sortColumns, whatever was sorted before it, returns its records in the
\* order of the file
C29_DemoCacheUnchanged ==
    /\ \A r \in Routes : demoData[r].loaded => demoData[r].data = demoFile[r]
    /\ (Listed /\ Falsy(Query(req.query, "sortColumns")))
           => InFileOrder(resp.records, demoFile[req.route])

\* a sorted request has just returned the records in another order than the
\* file's, and the cache still is the file
C29_Witness ==
    /\ Listed
    /\ ~Falsy(Query(req.query, "sortColumns"))
    /\ Len(resp.records) >= 2
    /\ ~InFileOrder(resp.records, demoFile[req.route])
    /\ demoData[req.route] = [loaded |-> TRUE, data |-> demoFile[req.route]]

\* the filtered and sorted set of the last list request, from the file
FullSet ==
    sortDemo(filterDemo(demoFile[req.route], req.query, DemoRoute(req.route).filters),
             Query(req.query, "sortColumns"), Query(req.query, "sortOrders"),
             DemoRoute(req.route).sortFields).data

\* the least of a and b, the greatest of a and b
Min(a, b) == IF a <= b THEN a ELSE b
Max(a, b) == IF a >= b THEN a ELSE b

\* C21: demo pagination.  With P the page number and S the page size of the
\* response and T the size of the filtered and sorted set, the response
\* holds exactly min(S, max(0, T - P*S)) records, those at positions P*S ..
\* P*S + S - 1 of the set in its order; totalCount is T on every page,
\* totalPages is the least n with n*S >= T; and no record of the page sits
\* at a position of the set that belongs to another page
C21_DemoPagination ==
    Listed =>
        \E full \in {FullSet} : \E T \in {Len(full)} :
        \E P \in {resp.pageNumber.n} : \E S \in {resp.pageSize.n} :
            /\ resp.pageNumber.t = "number" /\ resp.pageSize.t = "number" /\ S >= 1
            /\ Len(resp.records) = Min(S, Max(0, T - P * S))
            /\ \A i \in 1..Len(resp.records) : resp.records[i] = full[P * S + i]
            /\ resp.totalCount = Num(T)
            /\ resp.totalPages.t = "number"
            /\ resp.totalPages.n * S >= T
            /\ (resp.totalPages.n = 0 \/ (resp.totalPages.n - 1) * S < T)
            /\ \A i \in 1..Len(resp.records) : \A k \in 1..T :
                   full[k] = resp.records[i] => (k - 1) \div S = P

\* the second page of three records in pages of two: one record
C21_Witness ==
    /\ Listed
    /\ resp.pageNumber = Num(1)
    /\ resp.pageSize = Num(2)
    /\ resp.totalCount = Num(3)
    /\ resp.totalPages = Num(2)
    /\ Len(resp.records) = 1

\* the filter parameters the last list request supplies (with a value that
\* is not empty), as positions in the filter blocks of its route
SuppliedFilters ==
    {i \in 1..Len(DemoRoute(req.route).filters) :
        ~Falsy(Query(req.query, DemoRoute(req.route).filters[i].param))}

\* the records of the file that a request with the i-th filter alone keeps
KeptAlone(i) ==
    Apply(LAMBDA kept : {kept[k] : k \in 1..Len(kept)},
          filterDemo(demoFile[req.route],
                     [p \in {DemoRoute(req.route).filters[i].param} |-> req.query[p]],
                     DemoRoute(req.route).filters))

\* the records of the file that every supplied filter alone keeps
KeptByAll ==
    Apply(LAMBDA alone : {demoFile[req.route][k] : k \in
                             {j \in 1..Len(demoFile[req.route]) :
                                 \A i \in DOMAIN alone : demoFile[req.route][j] \in alone[i]}},
          [i \in SuppliedFilters |-> KeptAlone(i)])

\* C23: in demo mode the filters combine conjunctively: the records a list
\* response counts and returns are the records of the demo file that each
\* supplied filter alone keeps (the intersection of the single-filter
\* results); when a supplied filter keeps nothing, totalCount is 0 and the
\* list is empty
C23_DemoFiltersConjunctive ==
    Listed =>
        \E all \in {KeptByAll} :
            /\ resp.totalCount = Num(Cardinality(all))
            /\ \A i \in 1..Len(resp.records) : resp.records[i] \in all
            /\ (resp.pageNumber = Num(0) /\ resp.pageSize.n >= Cardinality(all))
                   => {resp.records[i] : i \in 1..Len(resp.records)} = all
            /\ (\E i \in SuppliedFilters : KeptAlone(i) = {})
                   => resp.totalCount = Num(0) /\ resp.records = <<>>

\* two filters that keep two records each and one record together
C23_Witness ==
    /\ Listed
    /\ Cardinality(SuppliedFilters) = 2
    /\ \A i \in SuppliedFilters : Cardinality(KeptAlone(i)) = 2
    /\ resp.totalCount = Num(1)
    /\ Len(resp.records) = 1

\* the names of sortColumns of the last request, trimmed, with the position
\* of each, that the route supports
SupportedCols ==
    Apply(LAMBDA cols : {i \in 1..Len(cols) : cols[i] \in DOMAIN DemoRoute(req.route).sortFields},
          SortCols(Query(req.query, "sortColumns")))

\* the value of the first supported sort column in a record
SortKey(rec) ==
    Apply(LAMBDA field : Field(rec, field.s),
          DemoRoute(req.route).sortFields[
              SortCols(Query(req.query, "sortColumns"))[
                  CHOOSE i \in SupportedCols : \A j \in SupportedCols : i <= j]])

\* the first supported sort column is to be sorted in descending order
Descending ==
    ParamAt(SortOrders(Query(req.query, "sortOrders")),
            CHOOSE i \in SupportedCols : \A j \in SupportedCols : i <= j) = Str("DESC")

\* x comes strictly before y in the requested direction (values that are
\* not null)
StrictlyBefore(x, y) == IF Descending THEN JsLess(y, x) ELSE JsLess(x, y)

\* the last request was a list request with sortColumns, and was answered
SortRequested ==
    /\ req.route \in Routes /\ req.id = "" /\ resp # NoRes
    /\ ~Falsy(Query(req.query, "sortColumns"))

\* C24: in demo mode, when sortColumns names a supported field the returned
\* records are in non-decreasing order of it for ASC or no sortOrders and in
\* non-increasing order for DESC, the whole filtered set being sorted before
\* the page is cut (a record of the page is preceded, on its page and the
\* pages before, by every filtered record that sorts strictly before it);
\* sort columns that are not supported are ignored: with none supported the
\* request is answered as without sortColumns, in the order of the file
C24_DemoSort ==
    SortRequested =>
        /\ resp.status = 200
        /\ SupportedCols = {} => InFileOrder(resp.records, demoFile[req.route])
        /\ SupportedCols # {} =>
               \E key \in {[i \in 1..Len(resp.records) |-> SortKey(resp.records[i])]} :
               \E all \in {[r \in KeptByAll |-> SortKey(r)]} :
                   /\ \A i, j \in 1..Len(resp.records) :
                          (i < j /\ ~IsNullish(key[i]) /\ ~IsNullish(key[j]))
                              => ~StrictlyBefore(key[j], key[i])
                   /\ \A i \in 1..Len(resp.records) :
                          ~IsNullish(key[i]) =>
                              Cardinality({r \in DOMAIN all :
                                              ~IsNullish(all[r]) /\ StrictlyBefore(all[r], key[i])})
                              <= resp.pageNumber.n * resp.pageSize.n + i - 1

\* the second page of a set sorted in descending order starts with the
\* first record of the file
C24_Witness ==
    /\ SortRequested
    /\ resp.status = 200
    /\ SupportedCols # {}
    /\ Descending
    /\ resp.pageNumber = Num(1)
    /\ Len(resp.records) >= 1
    /\ resp.records[1] = demoFile[req.route][1]

(***************************************************************************)
(* Properties of the get-by-ID handlers (SpecG)                            *)
(***************************************************************************)
\* the last request was a get-by-ID request, and was answered
GetAnswered == req.route \in Routes /\ req.id # "" /\ resp # NoRes

\* the record has the ID the last request asked for: the text of the
\* water system ID, the number the text of the facility ID stands for
HasRequestedId(rec) ==
    IF req.route = "water-system" THEN Field(rec, "waterSystemId") = Str(req.id)
    ELSE Field(rec, "facilityId").t = "number"
         /\ Field(rec, "facilityId") = Number(Str(req.id))

\* the records the lookup of the last request could find: those of the demo
\* file in demo mode, the rows of the table otherwise
Records ==
    IF mode = "demo" THEN demoFile[req.route]
    ELSE [k \in 1..Len(DbTable(req.route)) |-> mapRow(req.route, DbTable(req.route)[k])]

\* the response is the 404 of a lookup that found nothing
NotFound ==
    /\ resp.status = 404 /\ resp.error # Null
    /\ \A k \in 1..Len(Records) : ~HasRequestedId(Records[k])

\* the response is the 200 with the first record that has the requested ID
Found ==
    /\ resp.status = 200 /\ resp.error = Null
    /\ \E k \in 1..Len(Records) :
           /\ HasRequestedId(Records[k])
           /\ \A j \in 1..(k - 1) : ~HasRequestedId(Records[j])
           /\ resp.records = <<Records[k]>>

\* C22 as stated: a get-by-ID request is answered 404 with an error that is
\* not null exactly when no record has the requested ID (a facility ID that
\* is not a number included), and 200 with error null and the record with
\* the requested ID otherwise
C22_GetById == GetAnswered => (NotFound \/ Found)

\* C22 amended: a get-by-ID request whose lookup completes (always in demo
\* mode, when db.query resolves otherwise) is answered 404 with an error that
\* is not null exactly when no record has the requested ID, and 200 with
\* error null and the record with the requested ID otherwise; when db.query
\* rejects it is answered 500 with an error that is not null
C22_GetByIdOrFailure ==
    GetAnswered =>
        IF dbResult.state = "rejected" THEN resp.status = 500 /\ resp.error # Null
        ELSE NotFound \/ Found

\* a get-by-ID request with a database backend whose query was rejected
C22_Witness ==
    /\ GetAnswered
    /\ mode # "demo"
    /\ dbResult.state = "rejected"
    /\ resp.status = 500

====
